---------------------------- MODULE Spec2Model ----------------------------
(***************************************************************************)
(* A model of rom_cleanup.py (class ROMAnalyzer): the filename classifier, *)
(* the base-name normaliser, the duplicate resolvers and the folder-game   *)
(* detector.  File names are TLA+ strings; the regular expressions of the  *)
(* pattern tables are kept with their source text and matched by a small   *)
(* regular-expression evaluator (Ends / Search / Sub / FindAll below).     *)
(***************************************************************************)
EXTENDS Integers, Sequences, FiniteSets, TLC

(***************************************************************************)
(* Text helpers: Python str operations on TLA+ strings.                    *)
(***************************************************************************)
Ch(s, i) == SubSeq(s, i, i)

Drop(s, n) == SubSeq(s, n + 1, Len(s))

UpperLetters == <<"A","B","C","D","E","F","G","H","I","J","K","L","M",
                  "N","O","P","Q","R","S","T","U","V","W","X","Y","Z">>

LowerLetters == <<"a","b","c","d","e","f","g","h","i","j","k","l","m",
                  "n","o","p","q","r","s","t","u","v","w","x","y","z">>

DigitChars == <<"0","1","2","3","4","5","6","7","8","9">>

UpperSet == {UpperLetters[i] : i \in 1..26}

LowerSet == {LowerLetters[i] : i \in 1..26}

DigitSet == {DigitChars[i] : i \in 1..10}

\* the \w characters of the re module
WordSet == UpperSet \cup LowerSet \cup DigitSet \cup {"_"}

LowerOf == [c \in UpperSet |-> LowerLetters[CHOOSE i \in 1..26 : UpperLetters[i] = c]]

IsDigit(c) == c \in DigitSet

IsSpace(c) == c = " "

IsWordChar(c) == c \in WordSet

LowerChar(c) == IF c \in UpperSet THEN LowerOf[c] ELSE c

RECURSIVE Lower(_)
\* str.lower(); also the case folding of re.IGNORECASE
Lower(s) == IF s = "" THEN "" ELSE LowerChar(Ch(s, 1)) \o Lower(Drop(s, 1))

StartsWith(s, p) == Len(p) <= Len(s) /\ SubSeq(s, 1, Len(p)) = p

EndsWith(s, p) == Len(p) <= Len(s) /\ SubSeq(s, Len(s) - Len(p) + 1, Len(s)) = p

\* the Python test  p in s
Contains(s, p) == \E i \in 1..(Len(s) - Len(p) + 1) : SubSeq(s, i, i + Len(p) - 1) = p

RECURSIVE LStrip(_)
LStrip(s) == IF s # "" /\ IsSpace(Ch(s, 1)) THEN LStrip(Drop(s, 1)) ELSE s

RECURSIVE RStrip(_)
RStrip(s) == IF s # "" /\ IsSpace(Ch(s, Len(s))) THEN RStrip(SubSeq(s, 1, Len(s) - 1)) ELSE s

\* str.strip()
Strip(s) == RStrip(LStrip(s))

RECURSIVE SplitFrom(_, _, _)
SplitFrom(s, i, from) ==
    IF i > Len(s) THEN <<SubSeq(s, from, Len(s))>>
    ELSE IF Ch(s, i) = "," THEN <<SubSeq(s, from, i - 1)>> \o SplitFrom(s, i + 1, i + 1)
    ELSE SplitFrom(s, i + 1, from)

\* str.split(',')
SplitComma(s) == SplitFrom(s, 1, 1)

RECURSIVE ParseInt(_)
\* int() of a string of decimal digits
ParseInt(s) ==
    IF s = "" THEN 0
    ELSE 10 * ParseInt(SubSeq(s, 1, Len(s) - 1))
         + (CHOOSE d \in 0..9 : DigitChars[d + 1] = Ch(s, Len(s)))

\* index of the last '.' of s, 0 when there is none (str.rfind + 1)
LastDot(s) ==
    IF \E i \in 1..Len(s) : Ch(s, i) = "."
    THEN CHOOSE i \in 1..Len(s) : Ch(s, i) = "." /\ \A j \in (i + 1)..Len(s) : Ch(s, j) # "."
    ELSE 0

\* pathlib PurePath.suffix of a bare file name: the text from the last dot,
\* unless that dot is the first or the last character of the name
PathSuffix(name) ==
    LET i == LastDot(name)
    IN  IF 1 < i /\ i < Len(name) THEN SubSeq(name, i, Len(name)) ELSE ""

\* pathlib PurePath.stem
PathStem(name) ==
    LET i == LastDot(name)
    IN  IF 1 < i /\ i < Len(name) THEN SubSeq(name, 1, i - 1) ELSE name

SetMax(S) == CHOOSE x \in S : \A y \in S : y <= x

SetMin(S) == CHOOSE x \in S : \A y \in S : x <= y

(***************************************************************************)
(* Regular expressions.  A pattern is a record [src, re]: src is the       *)
(* pattern text of the source, re its syntax tree.  Patterns are written   *)
(* in lower case and matched against lower-cased text (re.IGNORECASE).     *)
(***************************************************************************)
L(s) == [k |-> "lit", s |-> s]

Cls(c) == [k |-> "cls", c |-> c]

WB == [k |-> "wb"]

Opt(r) == [k |-> "opt", r |-> r]

Star(r) == [k |-> "star", r |-> r]

Plus(r) == [k |-> "plus", r |-> r]

Cat(rs) == [k |-> "seq", rs |-> rs]

Alt(rs) == [k |-> "alt", rs |-> rs]

NotAhead(r) == [k |-> "nla", r |-> r]

Pat(src, re) == [src |-> src, re |-> re]

\* character classes: \d, \s, ., [^)], [^\]], [\(\[], [\)\]]
InClass(c, ch) ==
    CASE c = "d" -> IsDigit(ch)
      [] c = "s" -> IsSpace(ch)
      [] c = "any" -> TRUE
      [] c = "notrp" -> ch # ")"
      [] c = "notrb" -> ch # "]"
      [] c = "open" -> ch = "(" \/ ch = "["
      [] c = "close" -> ch = ")" \/ ch = "]"

\* \b at position i of s (between character i-1 and character i)
AtWordBoundary(s, i) ==
    LET before == i > 1 /\ IsWordChar(Ch(s, i - 1))
        after == i <= Len(s) /\ IsWordChar(Ch(s, i))
    IN  before # after

RECURSIVE Ends(_, _, _)
RECURSIVE SeqEnds(_, _, _, _)
RECURSIVE StarEnds(_, _, _, _)

\* the set of positions at which a match of r that starts at position i of s can end
Ends(r, s, i) ==
    CASE r.k = "seq" -> SeqEnds(r.rs, 1, s, {i})
      [] r.k = "lit" ->
            IF i + Len(r.s) - 1 <= Len(s) /\ SubSeq(s, i, i + Len(r.s) - 1) = r.s
            THEN {i + Len(r.s)} ELSE {}
      [] r.k = "wb" -> IF AtWordBoundary(s, i) THEN {i} ELSE {}
      [] r.k = "cls" -> IF i <= Len(s) /\ InClass(r.c, Ch(s, i)) THEN {i + 1} ELSE {}
      [] r.k = "opt" -> {i} \cup Ends(r.r, s, i)
      [] r.k = "star" -> StarEnds(r.r, s, {i}, {i})
      [] r.k = "plus" -> LET first == Ends(r.r, s, i)
                         IN  StarEnds(r.r, s, first, first)
      [] r.k = "alt" -> UNION {Ends(r.rs[n], s, i) : n \in 1..Len(r.rs)}
      [] r.k = "nla" -> IF Ends(r.r, s, i) = {} THEN {i} ELSE {}

SeqEnds(rs, n, s, from) ==
    IF n > Len(rs) \/ from = {} THEN from
    ELSE SeqEnds(rs, n + 1, s, UNION {Ends(rs[n], s, i) : i \in from})

StarEnds(r, s, seen, frontier) ==
    LET next == (UNION {Ends(r, s, i) : i \in frontier}) \ seen
    IN  IF next = {} THEN seen ELSE StarEnds(r, s, seen \cup next, next)

RECURSIVE FirstStart(_, _, _)
\* the leftmost position at or after i where a match of r starts in s, 0 when none
FirstStart(r, s, i) ==
    IF i > Len(s) + 1 THEN 0
    ELSE IF Ends(r, s, i) # {} THEN i
    ELSE FirstStart(r, s, i + 1)

\* re.search(p, low) is not None, for text already lower-cased
SearchLow(p, low) == FirstStart(p.re, low, 1) # 0

\* re.search(p, text, re.IGNORECASE) is not None
Search(p, text) == SearchLow(p, Lower(text))

\* the first match of p in the lower-cased text s at or after position from,
\* as <<start, end>> with end the position after the match; <<0, 0>> when
\* there is none.  Among the ends possible at the leftmost start the longest
\* is taken when greedy (the patterns substituted by the source have greedy
\* quantifiers only) and the shortest otherwise (the lazy .*? of findall).
FirstMatch(p, s, from, greedy) ==
    LET i == FirstStart(p.re, s, from)
    IN  IF i = 0 THEN <<0, 0>>
        ELSE <<i, IF greedy THEN SetMax(Ends(p.re, s, i)) ELSE SetMin(Ends(p.re, s, i))>>

RECURSIVE SubFrom(_, _, _, _, _)
SubFrom(p, repl, text, low, from) ==
    LET m == FirstMatch(p, low, from, TRUE)
    IN  IF m[1] = 0 THEN SubSeq(text, from, Len(text))
        ELSE SubSeq(text, from, m[1] - 1) \o repl \o SubFrom(p, repl, text, low, m[2])

\* re.sub(p, repl, text, flags=re.IGNORECASE): the leftmost non-overlapping
\* matches replaced, for a pattern that matches no empty string
Sub(p, repl, text) == SubFrom(p, repl, text, Lower(text), 1)

RECURSIVE FindAllFrom(_, _, _, _)
FindAllFrom(p, text, from, greedy) ==
    LET m == FirstMatch(p, text, from, greedy)
    IN  IF m[1] = 0 THEN <<>>
        ELSE <<SubSeq(text, m[1] + 1, m[2] - 2)>> \o FindAllFrom(p, text, m[2], greedy)

\* re.findall(p, text), case-sensitive, for a pattern made of one opening
\* character, one capturing group and one closing character: the captured texts
FindAll(p, text, greedy) == FindAllFrom(p, text, 1, greedy)

(***************************************************************************)
(* The pattern tables of ROMAnalyzer.__init__.                             *)
(***************************************************************************)
\* self.region_patterns, in the insertion order of the dict
region_patterns ==
  <<
    [region |-> "USA", patterns |-> <<
        Pat("\\(USA?\\)", Cat(<<L("(us"), Opt(L("a")), L(")")>>)),
        Pat("\\(US\\)", L("(us)")),
        Pat("\\(U\\)", L("(u)")),
        Pat("\\(NA\\)", L("(na)")),
        Pat("\\bUSA?\\b", Cat(<<WB, L("us"), Opt(L("a")), WB>>)),
        Pat("\\bUS\\b", Cat(<<WB, L("us"), WB>>)),
        Pat("\\bNA\\b", Cat(<<WB, L("na"), WB>>)) >>],
    [region |-> "Europe", patterns |-> <<
        Pat("\\(Europe?\\)", Cat(<<L("(europ"), Opt(L("e")), L(")")>>)),
        Pat("\\(EU\\)", L("(eu)")),
        Pat("\\(E\\)", L("(e)")),
        Pat("\\(PAL\\)", L("(pal)")),
        Pat("\\bEurope?\\b", Cat(<<WB, L("europ"), Opt(L("e")), WB>>)),
        Pat("\\bEU\\b", Cat(<<WB, L("eu"), WB>>)),
        Pat("\\bPAL\\b", Cat(<<WB, L("pal"), WB>>)) >>],
    [region |-> "Japan", patterns |-> <<
        Pat("\\(Japan?\\)", Cat(<<L("(japa"), Opt(L("n")), L(")")>>)),
        Pat("\\(JP\\)", L("(jp)")),
        Pat("\\(J\\)", L("(j)")),
        Pat("\\(NTSC-J\\)", L("(ntsc-j)")),
        Pat("\\bJapan?\\b", Cat(<<WB, L("japa"), Opt(L("n")), WB>>)),
        Pat("\\bJP\\b", Cat(<<WB, L("jp"), WB>>)),
        Pat("\\bJ\\b", Cat(<<WB, L("j"), WB>>)) >>],
    [region |-> "World", patterns |-> <<
        Pat("\\(World\\)", L("(world)")),
        Pat("\\(W\\)", L("(w)")),
        Pat("\\bWorld\\b", Cat(<<WB, L("world"), WB>>)),
        Pat("\\bW\\b", Cat(<<WB, L("w"), WB>>)) >>],
    [region |-> "Asia", patterns |-> <<
        Pat("\\(Asia\\)", L("(asia)")),
        Pat("\\(As\\)", L("(as)")),
        Pat("\\bAsia\\b", Cat(<<WB, L("asia"), WB>>)),
        Pat("\\bAs\\b", Cat(<<WB, L("as"), WB>>)) >>],
    [region |-> "Australia", patterns |-> <<
        Pat("\\(Australia\\)", L("(australia)")),
        Pat("\\(AU\\)", L("(au)")),
        Pat("\\(AUS\\)", L("(aus)")),
        Pat("\\bAustralia\\b", Cat(<<WB, L("australia"), WB>>)),
        Pat("\\bAU\\b", Cat(<<WB, L("au"), WB>>)),
        Pat("\\bAUS\\b", Cat(<<WB, L("aus"), WB>>)) >>],
    [region |-> "Brazil", patterns |-> <<
        Pat("\\(Brazil\\)", L("(brazil)")),
        Pat("\\(BR\\)", L("(br)")),
        Pat("\\bBrazil\\b", Cat(<<WB, L("brazil"), WB>>)),
        Pat("\\bBR\\b", Cat(<<WB, L("br"), WB>>)) >>],
    [region |-> "Canada", patterns |-> <<
        Pat("\\(Canada\\)", L("(canada)")),
        Pat("\\(CA\\)", L("(ca)")),
        Pat("\\bCanada\\b", Cat(<<WB, L("canada"), WB>>)),
        Pat("\\bCA\\b", Cat(<<WB, L("ca"), WB>>)) >>],
    [region |-> "China", patterns |-> <<
        Pat("\\(China\\)", L("(china)")),
        Pat("\\(CN\\)", L("(cn)")),
        Pat("\\bChina\\b", Cat(<<WB, L("china"), WB>>)),
        Pat("\\bCN\\b", Cat(<<WB, L("cn"), WB>>)) >>],
    [region |-> "France", patterns |-> <<
        Pat("\\(France\\)", L("(france)")),
        Pat("\\(FR\\)", L("(fr)")),
        Pat("\\bFrance\\b", Cat(<<WB, L("france"), WB>>)),
        Pat("\\bFR\\b", Cat(<<WB, L("fr"), WB>>)) >>],
    [region |-> "Germany", patterns |-> <<
        Pat("\\(Germany\\)", L("(germany)")),
        Pat("\\(DE\\)", L("(de)")),
        Pat("\\bGermany\\b", Cat(<<WB, L("germany"), WB>>)),
        Pat("\\bDE\\b", Cat(<<WB, L("de"), WB>>)) >>],
    [region |-> "Italy", patterns |-> <<
        Pat("\\(Italy\\)", L("(italy)")),
        Pat("\\(IT\\)", L("(it)")),
        Pat("\\bItaly\\b", Cat(<<WB, L("italy"), WB>>)),
        Pat("\\bIT\\b", Cat(<<WB, L("it"), WB>>)) >>],
    [region |-> "Korea", patterns |-> <<
        Pat("\\(Korea\\)", L("(korea)")),
        Pat("\\(KR\\)", L("(kr)")),
        Pat("\\bKorea\\b", Cat(<<WB, L("korea"), WB>>)),
        Pat("\\bKR\\b", Cat(<<WB, L("kr"), WB>>)) >>],
    [region |-> "Netherlands", patterns |-> <<
        Pat("\\(Netherlands\\)", L("(netherlands)")),
        Pat("\\(NL\\)", L("(nl)")),
        Pat("\\bNetherlands\\b", Cat(<<WB, L("netherlands"), WB>>)),
        Pat("\\bNL\\b", Cat(<<WB, L("nl"), WB>>)) >>],
    [region |-> "Spain", patterns |-> <<
        Pat("\\(Spain\\)", L("(spain)")),
        Pat("\\(ES\\)", L("(es)")),
        Pat("\\bSpain\\b", Cat(<<WB, L("spain"), WB>>)),
        Pat("\\bES\\b", Cat(<<WB, L("es"), WB>>)) >>],
    [region |-> "Sweden", patterns |-> <<
        Pat("\\(Sweden\\)", L("(sweden)")),
        Pat("\\(SE\\)", L("(se)")),
        Pat("\\bSweden\\b", Cat(<<WB, L("sweden"), WB>>)),
        Pat("\\bSE\\b", Cat(<<WB, L("se"), WB>>)) >>],
    [region |-> "Taiwan", patterns |-> <<
        Pat("\\(Taiwan\\)", L("(taiwan)")),
        Pat("\\(TW\\)", L("(tw)")),
        Pat("\\bTaiwan\\b", Cat(<<WB, L("taiwan"), WB>>)),
        Pat("\\bTW\\b", Cat(<<WB, L("tw"), WB>>)) >>],
    [region |-> "UK", patterns |-> <<
        Pat("\\(UK\\)", L("(uk)")),
        Pat("\\(United Kingdom\\)", L("(united kingdom)")),
        Pat("\\bUK\\b", Cat(<<WB, L("uk"), WB>>)),
        Pat("\\bUnited Kingdom\\b", Cat(<<WB, L("united kingdom"), WB>>)) >>]
  >>

\* self.special_patterns, in the insertion order of the dict
special_patterns ==
  <<
    [special |-> "Proto", patterns |-> <<
        Pat("\\(Proto\\s*\\d*\\)", Cat(<<L("(proto"), Star(Cls("s")), Star(Cls("d")), L(")")>>)),
        Pat("\\(Prototype\\s*\\d*\\)", Cat(<<L("(prototype"), Star(Cls("s")), Star(Cls("d")), L(")")>>)),
        Pat("\\[proto\\s*\\d*\\]", Cat(<<L("[proto"), Star(Cls("s")), Star(Cls("d")), L("]")>>)),
        Pat("\\[prototype\\s*\\d*\\]", Cat(<<L("[prototype"), Star(Cls("s")), Star(Cls("d")), L("]")>>)) >>],
    [special |-> "Beta", patterns |-> <<
        Pat("\\(Beta\\s*\\d*\\)", Cat(<<L("(beta"), Star(Cls("s")), Star(Cls("d")), L(")")>>)),
        Pat("\\[beta\\s*\\d*\\]", Cat(<<L("[beta"), Star(Cls("s")), Star(Cls("d")), L("]")>>)),
        Pat("\\[b\\d*\\]", Cat(<<L("[b"), Star(Cls("d")), L("]")>>)) >>],
    [special |-> "Alpha", patterns |-> <<
        Pat("\\(Alpha\\s*\\d*\\)", Cat(<<L("(alpha"), Star(Cls("s")), Star(Cls("d")), L(")")>>)),
        Pat("\\[alpha\\s*\\d*\\]", Cat(<<L("[alpha"), Star(Cls("s")), Star(Cls("d")), L("]")>>)),
        Pat("\\[a\\d*\\]", Cat(<<L("[a"), Star(Cls("d")), L("]")>>)) >>],
    [special |-> "Demo", patterns |-> <<
        Pat("\\(Demo\\s*\\d*\\)", Cat(<<L("(demo"), Star(Cls("s")), Star(Cls("d")), L(")")>>)),
        Pat("\\[demo\\s*\\d*\\]", Cat(<<L("[demo"), Star(Cls("s")), Star(Cls("d")), L("]")>>)),
        Pat("\\[d\\d*\\]", Cat(<<L("[d"), Star(Cls("d")), L("]")>>)) >>],
    [special |-> "Sample", patterns |-> <<
        Pat("\\(Sample\\s*\\d*\\)", Cat(<<L("(sample"), Star(Cls("s")), Star(Cls("d")), L(")")>>)),
        Pat("\\[sample\\s*\\d*\\]", Cat(<<L("[sample"), Star(Cls("s")), Star(Cls("d")), L("]")>>)) >>],
    [special |-> "Homebrew", patterns |-> <<
        Pat("\\(Homebrew\\)", L("(homebrew)")),
        Pat("\\[homebrew\\]", L("[homebrew]")),
        Pat("\\[h\\]", L("[h]")) >>],
    [special |-> "Hack", patterns |-> <<
        Pat("\\(Hack\\)", L("(hack)")),
        Pat("\\[hack\\]", L("[hack]")),
        Pat("\\[h\\d+\\]", Cat(<<L("[h"), Plus(Cls("d")), L("]")>>)) >>],
    [special |-> "Translation", patterns |-> <<
        Pat("\\(Translation\\)", L("(translation)")),
        Pat("\\[T\\+", L("[t+")),
        Pat("\\[T-", L("[t-")) >>],
    [special |-> "Trainer", patterns |-> <<
        Pat("\\[t\\d*\\]", Cat(<<L("[t"), Star(Cls("d")), L("]")>>)),
        Pat("\\(Trainer\\)", L("(trainer)")) >>],
    [special |-> "Overdump", patterns |-> <<
        Pat("\\[o\\d*\\]", Cat(<<L("[o"), Star(Cls("d")), L("]")>>)),
        Pat("\\(Overdump\\)", L("(overdump)")) >>],
    [special |-> "Bad Dump", patterns |-> <<
        Pat("\\[b\\d*\\]", Cat(<<L("[b"), Star(Cls("d")), L("]")>>)),
        Pat("\\(Bad\\)", L("(bad)")),
        Pat("\\[!p\\]", L("[!p]")) >>],
    [special |-> "Good Dump", patterns |-> <<
        Pat("\\[!\\]", L("[!]")),
        Pat("\\(Good\\)", L("(good)")) >>],
    [special |-> "Cracked", patterns |-> <<
        Pat("\\[cr\\]", L("[cr]")),
        Pat("\\(Cracked\\)", L("(cracked)")) >>],
    [special |-> "Fixed", patterns |-> <<
        Pat("\\[f\\d*\\]", Cat(<<L("[f"), Star(Cls("d")), L("]")>>)),
        Pat("\\(Fixed\\)", L("(fixed)")) >>],
    [special |-> "Pirate", patterns |-> <<
        Pat("\\[p\\d*\\]", Cat(<<L("[p"), Star(Cls("d")), L("]")>>)),
        Pat("\\(Pirate\\)", L("(pirate)")) >>]
  >>

\* self.translation_patterns
translation_patterns ==
  <<
    Pat("\\[T\\+.*?\\]", Cat(<<L("[t+"), Star(Cls("any")), L("]")>>)),
    Pat("\\[T-.*?\\]", Cat(<<L("[t-"), Star(Cls("any")), L("]")>>)),
    Pat("\\(Translation\\)", L("(translation)")),
    Pat("\\(Translated\\)", L("(translated)")),
    Pat("\\(English\\)", L("(english)")),
    Pat("\\[English\\]", L("[english]")),
    Pat("\\(Eng\\)", L("(eng)")),
    Pat("\\[Eng\\]", L("[eng]")),
    Pat("\\[T&.*?\\]", Cat(<<L("[t&"), Star(Cls("any")), L("]")>>)),
    Pat("English Translation", L("english translation")),
    Pat("Fan Translation", L("fan translation")),
    Pat("\\bTranslated\\b", Cat(<<WB, L("translated"), WB>>)),
    Pat("\\bEnglish\\b", Cat(<<WB, L("english"), WB>>)) >>

\* self.language_code_patterns
language_code_patterns ==
  <<
    Pat("\\b(En|Fr|De|Es|It|Nl|Pt|Sv|No|Da|Fi|Pl|Ru|Ja|Ko|Zh)\\b", Cat(<<WB, Alt(<<L("en"), L("fr"), L("de"), L("es"), L("it"), L("nl"), L("pt"), L("sv"), L("no"), L("da"), L("fi"), L("pl"), L("ru"), L("ja"), L("ko"), L("zh")>>), WB>>)),
    Pat("\\bEng\\b", Cat(<<WB, L("eng"), WB>>)),
    Pat("\\bFre\\b", Cat(<<WB, L("fre"), WB>>)),
    Pat("\\bGer\\b", Cat(<<WB, L("ger"), WB>>)),
    Pat("\\bSpa\\b", Cat(<<WB, L("spa"), WB>>)),
    Pat("\\bIta\\b", Cat(<<WB, L("ita"), WB>>)),
    Pat("\\bDut\\b", Cat(<<WB, L("dut"), WB>>)),
    Pat("\\bEnglish\\b", Cat(<<WB, L("english"), WB>>)),
    Pat("\\bFrench\\b", Cat(<<WB, L("french"), WB>>)),
    Pat("\\bGerman\\b", Cat(<<WB, L("german"), WB>>)),
    Pat("\\bSpanish\\b", Cat(<<WB, L("spanish"), WB>>)),
    Pat("\\bItalian\\b", Cat(<<WB, L("italian"), WB>>)),
    Pat("\\bDutch\\b", Cat(<<WB, L("dutch"), WB>>)),
    Pat("\\bPortuguese\\b", Cat(<<WB, L("portuguese"), WB>>)),
    Pat("\\bSwedish\\b", Cat(<<WB, L("swedish"), WB>>)),
    Pat("\\bNorwegian\\b", Cat(<<WB, L("norwegian"), WB>>)),
    Pat("\\bDanish\\b", Cat(<<WB, L("danish"), WB>>)),
    Pat("\\bFinnish\\b", Cat(<<WB, L("finnish"), WB>>)),
    Pat("\\bPolish\\b", Cat(<<WB, L("polish"), WB>>)),
    Pat("\\bRussian\\b", Cat(<<WB, L("russian"), WB>>)),
    Pat("\\bJapanese\\b", Cat(<<WB, L("japanese"), WB>>)),
    Pat("\\bKorean\\b", Cat(<<WB, L("korean"), WB>>)),
    Pat("\\bChinese\\b", Cat(<<WB, L("chinese"), WB>>)) >>

\* self.casino_game_patterns
casino_game_patterns ==
  <<
    Pat("\\bcasino\\b", Cat(<<WB, L("casino"), WB>>)),
    Pat("\\bvegas\\b", Cat(<<WB, L("vegas"), WB>>)),
    Pat("\\blasvegas\\b", Cat(<<WB, L("lasvegas"), WB>>)),
    Pat("\\blas vegas\\b", Cat(<<WB, L("las vegas"), WB>>)),
    Pat("\\bgambling\\b", Cat(<<WB, L("gambling"), WB>>)),
    Pat("\\bjackpot\\b", Cat(<<WB, L("jackpot"), WB>>)),
    Pat("\\bpoker\\b", Cat(<<WB, L("poker"), WB>>)),
    Pat("\\btexas hold\\b", Cat(<<WB, L("texas hold"), WB>>)),
    Pat("\\bholdem\\b", Cat(<<WB, L("holdem"), WB>>)),
    Pat("\\bblackjack\\b", Cat(<<WB, L("blackjack"), WB>>)),
    Pat("\\bblack jack\\b", Cat(<<WB, L("black jack"), WB>>)),
    Pat("\\bbaccarat\\b", Cat(<<WB, L("baccarat"), WB>>)),
    Pat("\\bsolitaire\\b", Cat(<<WB, L("solitaire"), WB>>)),
    Pat("\\bklondike\\b", Cat(<<WB, L("klondike"), WB>>)),
    Pat("\\bfreecell\\b", Cat(<<WB, L("freecell"), WB>>)),
    Pat("\\bpai gow\\b", Cat(<<WB, L("pai gow"), WB>>)),
    Pat("\\bpaigow\\b", Cat(<<WB, L("paigow"), WB>>)),
    Pat("\\bgin rummy\\b", Cat(<<WB, L("gin rummy"), WB>>)),
    Pat("\\brummy\\b", Cat(<<WB, L("rummy"), WB>>)),
    Pat("\\broulette\\b", Cat(<<WB, L("roulette"), WB>>)),
    Pat("\\bcraps\\b", Cat(<<WB, L("craps"), WB>>)),
    Pat("\\bkeno\\b", Cat(<<WB, L("keno"), WB>>)),
    Pat("\\bbingo\\b", Cat(<<WB, L("bingo"), WB>>)),
    Pat("\\bslots?\\b", Cat(<<WB, L("slot"), Opt(L("s")), WB>>)),
    Pat("\\bslot machine\\b", Cat(<<WB, L("slot machine"), WB>>)),
    Pat("\\bfruit machine\\b", Cat(<<WB, L("fruit machine"), WB>>)),
    Pat("\\bone arm bandit\\b", Cat(<<WB, L("one arm bandit"), WB>>)),
    Pat("\\bcherry master\\b", Cat(<<WB, L("cherry master"), WB>>)),
    Pat("\\bvegas stakes\\b", Cat(<<WB, L("vegas stakes"), WB>>)),
    Pat("\\bcasino kid\\b", Cat(<<WB, L("casino kid"), WB>>)),
    Pat("\\bworld class poker\\b", Cat(<<WB, L("world class poker"), WB>>)),
    Pat("\\bcaesars palace\\b", Cat(<<WB, L("caesars palace"), WB>>)),
    Pat("\\btrump castle\\b", Cat(<<WB, L("trump castle"), WB>>)),
    Pat("\\blas vegas dream\\b", Cat(<<WB, L("las vegas dream"), WB>>)),
    Pat("\\batlantic city action\\b", Cat(<<WB, L("atlantic city action"), WB>>)),
    Pat("\\bmonte carlo casino\\b", Cat(<<WB, L("monte carlo casino"), WB>>)),
    Pat("\\bpachinko\\b", Cat(<<WB, L("pachinko"), WB>>)),
    Pat("\\bmahjong\\b", Cat(<<WB, L("mahjong"), WB>>)),
    Pat("\\bmah jong\\b", Cat(<<WB, L("mah jong"), WB>>)),
    Pat("\\bmah-jong\\b", Cat(<<WB, L("mah-jong"), WB>>)),
    Pat("\\bhanafuda\\b", Cat(<<WB, L("hanafuda"), WB>>)),
    Pat("\\bchuck a luck\\b", Cat(<<WB, L("chuck a luck"), WB>>)),
    Pat("\\bwheel of fortune\\b(?! - )", Cat(<<WB, L("wheel of fortune"), WB, NotAhead(L(" - "))>>)),
    Pat("\\bmonte carlo casino\\b", Cat(<<WB, L("monte carlo casino"), WB>>)),
    Pat("\\batlantic city casino\\b", Cat(<<WB, L("atlantic city casino"), WB>>)),
    Pat("\\breno casino\\b", Cat(<<WB, L("reno casino"), WB>>)),
    Pat("\\briverboat casino\\b", Cat(<<WB, L("riverboat casino"), WB>>)),
    Pat("\\bcasino chip\\b", Cat(<<WB, L("casino chip"), WB>>)),
    Pat("\\bpoker chip\\b", Cat(<<WB, L("poker chip"), WB>>)),
    Pat("\\bgaming chip\\b", Cat(<<WB, L("gaming chip"), WB>>)) >>

\* self.casino_exclusion_patterns
casino_exclusion_patterns ==
  <<
    Pat("\\bspider.?man\\b", Cat(<<WB, L("spider"), Opt(Cls("any")), L("man"), WB>>)),
    Pat("\\bvenom\\b", Cat(<<WB, L("venom"), WB>>)),
    Pat("\\bcarnage\\b", Cat(<<WB, L("carnage"), WB>>)),
    Pat("\\blethal\\b", Cat(<<WB, L("lethal"), WB>>)),
    Pat("\\bsuperman\\b", Cat(<<WB, L("superman"), WB>>)),
    Pat("\\bbatman\\b", Cat(<<WB, L("batman"), WB>>)),
    Pat("\\bx.?men\\b", Cat(<<WB, L("x"), Opt(Cls("any")), L("men"), WB>>)),
    Pat("\\bavengers\\b", Cat(<<WB, L("avengers"), WB>>)),
    Pat("\\bmarvel\\b", Cat(<<WB, L("marvel"), WB>>)),
    Pat("\\bdc comics\\b", Cat(<<WB, L("dc comics"), WB>>)),
    Pat("\\bwolverine\\b", Cat(<<WB, L("wolverine"), WB>>)),
    Pat("\\bhulk\\b", Cat(<<WB, L("hulk"), WB>>)),
    Pat("\\bcaptain america\\b", Cat(<<WB, L("captain america"), WB>>)),
    Pat("\\biron man\\b", Cat(<<WB, L("iron man"), WB>>)),
    Pat("\\bjustice league\\b", Cat(<<WB, L("justice league"), WB>>)),
    Pat("\\bstar trek\\b", Cat(<<WB, L("star trek"), WB>>)),
    Pat("\\bstarfleet\\b", Cat(<<WB, L("starfleet"), WB>>)),
    Pat("\\bbridge simulator\\b", Cat(<<WB, L("bridge simulator"), WB>>)),
    Pat("\\bstar wars\\b", Cat(<<WB, L("star wars"), WB>>)),
    Pat("\\benterprise\\b", Cat(<<WB, L("enterprise"), WB>>)),
    Pat("\\bstarship\\b", Cat(<<WB, L("starship"), WB>>)),
    Pat("\\balien\\b", Cat(<<WB, L("alien"), WB>>)),
    Pat("\\bspace\\b.*\\binvaders\\b", Cat(<<WB, L("space"), WB, Star(Cls("any")), WB, L("invaders"), WB>>)),
    Pat("\\bgalaga\\b", Cat(<<WB, L("galaga"), WB>>)),
    Pat("\\bskateboard\\b", Cat(<<WB, L("skateboard"), WB>>)),
    Pat("\\bskate\\b", Cat(<<WB, L("skate"), WB>>)),
    Pat("\\bsnowboard\\b", Cat(<<WB, L("snowboard"), WB>>)),
    Pat("\\bsurf\\b", Cat(<<WB, L("surf"), WB>>)),
    Pat("\\brace\\b(?!.*casino)", Cat(<<WB, L("race"), WB, NotAhead(Cat(<<Star(Cls("any")), L("casino")>>))>>)),
    Pat("\\btrack\\b(?!.*casino)", Cat(<<WB, L("track"), WB, NotAhead(Cat(<<Star(Cls("any")), L("casino")>>))>>)),
    Pat("\\bfootball\\b", Cat(<<WB, L("football"), WB>>)),
    Pat("\\bbaseball\\b", Cat(<<WB, L("baseball"), WB>>)),
    Pat("\\bbasketball\\b", Cat(<<WB, L("basketball"), WB>>)),
    Pat("\\bhockey\\b", Cat(<<WB, L("hockey"), WB>>)),
    Pat("\\bpokemon\\b", Cat(<<WB, L("pokemon"), WB>>)),
    Pat("\\bdigimon\\b", Cat(<<WB, L("digimon"), WB>>)),
    Pat("\\byu-gi-oh\\b", Cat(<<WB, L("yu-gi-oh"), WB>>)),
    Pat("\\bmagic the gathering\\b", Cat(<<WB, L("magic the gathering"), WB>>)),
    Pat("\\bduel\\b.*\\bmasters\\b", Cat(<<WB, L("duel"), WB, Star(Cls("any")), WB, L("masters"), WB>>)),
    Pat("\\bcard\\b.*\\bbattle\\b", Cat(<<WB, L("card"), WB, Star(Cls("any")), WB, L("battle"), WB>>)),
    Pat("\\btcg\\b", Cat(<<WB, L("tcg"), WB>>)),
    Pat("\\bccg\\b", Cat(<<WB, L("ccg"), WB>>)),
    Pat("\\bsolitaire\\b(?!.*casino)", Cat(<<WB, L("solitaire"), WB, NotAhead(Cat(<<Star(Cls("any")), L("casino")>>))>>)),
    Pat("\\bpyramid\\b(?!.*casino)", Cat(<<WB, L("pyramid"), WB, NotAhead(Cat(<<Star(Cls("any")), L("casino")>>))>>)),
    Pat("\\bmario\\b", Cat(<<WB, L("mario"), WB>>)),
    Pat("\\bzelda\\b", Cat(<<WB, L("zelda"), WB>>)),
    Pat("\\bkirby\\b", Cat(<<WB, L("kirby"), WB>>)),
    Pat("\\byoshi\\b", Cat(<<WB, L("yoshi"), WB>>)),
    Pat("\\bsonic\\b", Cat(<<WB, L("sonic"), WB>>)),
    Pat("\\bmegaman\\b", Cat(<<WB, L("megaman"), WB>>)),
    Pat("\\bmega man\\b", Cat(<<WB, L("mega man"), WB>>)),
    Pat("\\bcastlevania\\b", Cat(<<WB, L("castlevania"), WB>>)),
    Pat("\\bmetroid\\b", Cat(<<WB, L("metroid"), WB>>)),
    Pat("\\bfinal fantasy\\b", Cat(<<WB, L("final fantasy"), WB>>)),
    Pat("\\bdragon quest\\b", Cat(<<WB, L("dragon quest"), WB>>)),
    Pat("\\bbridge\\b(?!.*casino)", Cat(<<WB, L("bridge"), WB, NotAhead(Cat(<<Star(Cls("any")), L("casino")>>))>>)),
    Pat("\\bboat\\b(?!.*casino)", Cat(<<WB, L("boat"), WB, NotAhead(Cat(<<Star(Cls("any")), L("casino")>>))>>)),
    Pat("\\bchip\\b(?!.*casino)", Cat(<<WB, L("chip"), WB, NotAhead(Cat(<<Star(Cls("any")), L("casino")>>))>>)),
    Pat("\\bslot\\b(?!.*machine)", Cat(<<WB, L("slot"), WB, NotAhead(Cat(<<Star(Cls("any")), L("machine")>>))>>)),
    Pat("\\bmonopoly\\b", Cat(<<WB, L("monopoly"), WB>>)),
    Pat("\\brisk\\b(?!.*casino)", Cat(<<WB, L("risk"), WB, NotAhead(Cat(<<Star(Cls("any")), L("casino")>>))>>)),
    Pat("\\bscrabble\\b", Cat(<<WB, L("scrabble"), WB>>)),
    Pat("\\bchess\\b", Cat(<<WB, L("chess"), WB>>)),
    Pat("\\bcheckers\\b", Cat(<<WB, L("checkers"), WB>>)),
    Pat("\\bgo\\b(?!.*casino)", Cat(<<WB, L("go"), WB, NotAhead(Cat(<<Star(Cls("any")), L("casino")>>))>>)),
    Pat("\\bwheel of fortune\\b.*\\bgame show\\b", Cat(<<WB, L("wheel of fortune"), WB, Star(Cls("any")), WB, L("game show"), WB>>)),
    Pat("\\bjeopardy\\b", Cat(<<WB, L("jeopardy"), WB>>)),
    Pat("\\bfamily feud\\b", Cat(<<WB, L("family feud"), WB>>)),
    Pat("\\bprice is right\\b", Cat(<<WB, L("price is right"), WB>>)),
    Pat("\\bgame show\\b", Cat(<<WB, L("game show"), WB>>)),
    Pat("\\btrivia\\b(?!.*casino)", Cat(<<WB, L("trivia"), WB, NotAhead(Cat(<<Star(Cls("any")), L("casino")>>))>>)),
    Pat("\\bstreet fighter\\b", Cat(<<WB, L("street fighter"), WB>>)),
    Pat("\\bmortal kombat\\b", Cat(<<WB, L("mortal kombat"), WB>>)),
    Pat("\\btekken\\b", Cat(<<WB, L("tekken"), WB>>)),
    Pat("\\bking of fighters\\b", Cat(<<WB, L("king of fighters"), WB>>)),
    Pat("\\bsamurai shodown\\b", Cat(<<WB, L("samurai shodown"), WB>>)) >>

\* self.adult_game_patterns
adult_game_patterns ==
  <<
    Pat("\\bhentai\\b", Cat(<<WB, L("hentai"), WB>>)),
    Pat("\\bporn\\b", Cat(<<WB, L("porn"), WB>>)),
    Pat("\\bporno\\b", Cat(<<WB, L("porno"), WB>>)),
    Pat("\\bxxx\\b", Cat(<<WB, L("xxx"), WB>>)),
    Pat("\\badult\\b", Cat(<<WB, L("adult"), WB>>)),
    Pat("\\berotic\\b", Cat(<<WB, L("erotic"), WB>>)),
    Pat("\\bsexy\\b", Cat(<<WB, L("sexy"), WB>>)),
    Pat("\\bnude\\b", Cat(<<WB, L("nude"), WB>>)),
    Pat("\\bnaked\\b", Cat(<<WB, L("naked"), WB>>)),
    Pat("\\bbishoujo\\b", Cat(<<WB, L("bishoujo"), WB>>)),
    Pat("\\becchi\\b", Cat(<<WB, L("ecchi"), WB>>)),
    Pat("\\bbishounen\\b", Cat(<<WB, L("bishounen"), WB>>)),
    Pat("\\beroges?\\b", Cat(<<WB, L("eroge"), Opt(L("s")), WB>>)),
    Pat("\\bgalge\\b", Cat(<<WB, L("galge"), WB>>)),
    Pat("\\botome\\b", Cat(<<WB, L("otome"), WB>>)),
    Pat("\\bdating sim\\b", Cat(<<WB, L("dating sim"), WB>>)),
    Pat("\\bvisual novel\\b.*\\badult\\b", Cat(<<WB, L("visual novel"), WB, Star(Cls("any")), WB, L("adult"), WB>>)),
    Pat("\\brenai\\b", Cat(<<WB, L("renai"), WB>>)),
    Pat("\\bsuper\\s+maruo\\b", Cat(<<WB, L("super"), Plus(Cls("s")), L("maruo"), WB>>)),
    Pat("\\bbishoujo\\s+shashinkan\\b", Cat(<<WB, L("bishoujo"), Plus(Cls("s")), L("shashinkan"), WB>>)),
    Pat("\\bstudio\\s+cut\\b", Cat(<<WB, L("studio"), Plus(Cls("s")), L("cut"), WB>>)),
    Pat("\\bbodycon quest\\b", Cat(<<WB, L("bodycon quest"), WB>>)),
    Pat("\\babakareshi musume\\b", Cat(<<WB, L("abakareshi musume"), WB>>)),
    Pat("\\bhoney peach\\b", Cat(<<WB, L("honey peach"), WB>>)),
    Pat("\\bnight life\\b", Cat(<<WB, L("night life"), WB>>)),
    Pat("\\bmidnight\\b.*\\blove\\b", Cat(<<WB, L("midnight"), WB, Star(Cls("any")), WB, L("love"), WB>>)),
    Pat("\\bplayboy\\b", Cat(<<WB, L("playboy"), WB>>)),
    Pat("\\bpenthouse\\b", Cat(<<WB, L("penthouse"), WB>>)),
    Pat("\\bhustler\\b", Cat(<<WB, L("hustler"), WB>>)),
    Pat("\\bstriptease\\b", Cat(<<WB, L("striptease"), WB>>)),
    Pat("\\bstrip\\b.*\\bpoker\\b", Cat(<<WB, L("strip"), WB, Star(Cls("any")), WB, L("poker"), WB>>)),
    Pat("\\blingerie\\b", Cat(<<WB, L("lingerie"), WB>>)),
    Pat("\\b18\\+\\b", Cat(<<WB, L("18+"), WB>>)),
    Pat("\\badults? only\\b", Cat(<<WB, L("adult"), Opt(L("s")), L(" only"), WB>>)),
    Pat("\\bmature\\b.*\\bcontent\\b", Cat(<<WB, L("mature"), WB, Star(Cls("any")), WB, L("content"), WB>>)),
    Pat("\\bunlicensed\\b.*\\badult\\b", Cat(<<WB, L("unlicensed"), WB, Star(Cls("any")), WB, L("adult"), WB>>)),
    Pat("\\bhomebrew\\b.*\\badult\\b", Cat(<<WB, L("homebrew"), WB, Star(Cls("any")), WB, L("adult"), WB>>)),
    Pat("\\bgirls?\\b.*\\bunlocked\\b", Cat(<<WB, L("girl"), Opt(L("s")), WB, Star(Cls("any")), WB, L("unlocked"), WB>>)),
    Pat("\\bseduction\\b", Cat(<<WB, L("seduction"), WB>>)),
    Pat("\\btemptation\\b", Cat(<<WB, L("temptation"), WB>>)),
    Pat("\\bforbidden\\b.*\\blove\\b", Cat(<<WB, L("forbidden"), WB, Star(Cls("any")), WB, L("love"), WB>>)),
    Pat("\\bpassion\\b.*\\bnight\\b", Cat(<<WB, L("passion"), WB, Star(Cls("any")), WB, L("night"), WB>>)) >>

\* self.adult_exclusion_patterns
adult_exclusion_patterns ==
  <<
    Pat("\\bmario\\b", Cat(<<WB, L("mario"), WB>>)),
    Pat("\\bzelda\\b", Cat(<<WB, L("zelda"), WB>>)),
    Pat("\\bpokemon\\b", Cat(<<WB, L("pokemon"), WB>>)),
    Pat("\\bsonic\\b", Cat(<<WB, L("sonic"), WB>>)),
    Pat("\\bkirby\\b", Cat(<<WB, L("kirby"), WB>>)),
    Pat("\\byoshi\\b", Cat(<<WB, L("yoshi"), WB>>)),
    Pat("\\bdonkey kong\\b", Cat(<<WB, L("donkey kong"), WB>>)),
    Pat("\\bmegaman\\b", Cat(<<WB, L("megaman"), WB>>)),
    Pat("\\bmega man\\b", Cat(<<WB, L("mega man"), WB>>)),
    Pat("\\bfinal fantasy\\b", Cat(<<WB, L("final fantasy"), WB>>)),
    Pat("\\bdragon quest\\b", Cat(<<WB, L("dragon quest"), WB>>)),
    Pat("\\bchrono\\b", Cat(<<WB, L("chrono"), WB>>)),
    Pat("\\bsecret of\\b", Cat(<<WB, L("secret of"), WB>>)),
    Pat("\\bnight.*\\btrap\\b", Cat(<<WB, L("night"), Star(Cls("any")), WB, L("trap"), WB>>)),
    Pat("\\bmidnight.*\\bresistance\\b", Cat(<<WB, L("midnight"), Star(Cls("any")), WB, L("resistance"), WB>>)),
    Pat("\\badult.*\\bswim\\b", Cat(<<WB, L("adult"), Star(Cls("any")), WB, L("swim"), WB>>)),
    Pat("\\bmature.*\\btree\\b", Cat(<<WB, L("mature"), Star(Cls("any")), WB, L("tree"), WB>>)),
    Pat("\\bsexy.*\\bparodius\\b", Cat(<<WB, L("sexy"), Star(Cls("any")), WB, L("parodius"), WB>>)),
    Pat("\\bnude.*\\brace\\b", Cat(<<WB, L("nude"), Star(Cls("any")), WB, L("race"), WB>>)),
    Pat("\\bnude.*\\bcar\\b", Cat(<<WB, L("nude"), Star(Cls("any")), WB, L("car"), WB>>)) >>

\* self.version_patterns
version_patterns ==
  <<
    Pat("\\(v?(\\d+)\\.(\\d+)(?:\\.(\\d+))?\\)", Cat(<<L("("), Opt(L("v")), Plus(Cls("d")), L("."), Plus(Cls("d")), Opt(Cat(<<L("."), Plus(Cls("d"))>>)), L(")")>>)),
    Pat("\\[v?(\\d+)\\.(\\d+)(?:\\.(\\d+))?\\]", Cat(<<L("["), Opt(L("v")), Plus(Cls("d")), L("."), Plus(Cls("d")), Opt(Cat(<<L("."), Plus(Cls("d"))>>)), L("]")>>)),
    Pat("\\(ver\\.?\\s*(\\d+)(?:\\.(\\d+))?(?:\\.(\\d+))?\\)", Cat(<<L("(ver"), Opt(L(".")), Star(Cls("s")), Plus(Cls("d")), Opt(Cat(<<L("."), Plus(Cls("d"))>>)), Opt(Cat(<<L("."), Plus(Cls("d"))>>)), L(")")>>)),
    Pat("\\[ver\\.?\\s*(\\d+)(?:\\.(\\d+))?(?:\\.(\\d+))?\\]", Cat(<<L("[ver"), Opt(L(".")), Star(Cls("s")), Plus(Cls("d")), Opt(Cat(<<L("."), Plus(Cls("d"))>>)), Opt(Cat(<<L("."), Plus(Cls("d"))>>)), L("]")>>)),
    Pat("\\(version\\s*(\\d+)(?:\\.(\\d+))?(?:\\.(\\d+))?\\)", Cat(<<L("(version"), Star(Cls("s")), Plus(Cls("d")), Opt(Cat(<<L("."), Plus(Cls("d"))>>)), Opt(Cat(<<L("."), Plus(Cls("d"))>>)), L(")")>>)),
    Pat("\\[version\\s*(\\d+)(?:\\.(\\d+))?(?:\\.(\\d+))?\\]", Cat(<<L("[version"), Star(Cls("s")), Plus(Cls("d")), Opt(Cat(<<L("."), Plus(Cls("d"))>>)), Opt(Cat(<<L("."), Plus(Cls("d"))>>)), L("]")>>)),
    Pat("\\(r(?:ev)?\\.?\\s*(\\d+)\\)", Cat(<<L("(r"), Opt(L("ev")), Opt(L(".")), Star(Cls("s")), Plus(Cls("d")), L(")")>>)),
    Pat("\\[r(?:ev)?\\.?\\s*(\\d+)\\]", Cat(<<L("[r"), Opt(L("ev")), Opt(L(".")), Star(Cls("s")), Plus(Cls("d")), L("]")>>)),
    Pat("\\(revision\\s*(\\d+)\\)", Cat(<<L("(revision"), Star(Cls("s")), Plus(Cls("d")), L(")")>>)),
    Pat("\\[revision\\s*(\\d+)\\]", Cat(<<L("[revision"), Star(Cls("s")), Plus(Cls("d")), L("]")>>)),
    Pat("\\((alpha|beta)\\s*(\\d+)(?:\\.(\\d+))?\\)", Cat(<<L("("), Alt(<<L("alpha"), L("beta")>>), Star(Cls("s")), Plus(Cls("d")), Opt(Cat(<<L("."), Plus(Cls("d"))>>)), L(")")>>)),
    Pat("\\[(alpha|beta)\\s*(\\d+)(?:\\.(\\d+))?\\]", Cat(<<L("["), Alt(<<L("alpha"), L("beta")>>), Star(Cls("s")), Plus(Cls("d")), Opt(Cat(<<L("."), Plus(Cls("d"))>>)), L("]")>>)) >>

(***************************************************************************)
(* Classifier.                                                             *)
(***************************************************************************)
\* some pattern of the list ps matches text
AnySearchLow(ps, low) == \E n \in 1..Len(ps) : SearchLow(ps[n], low)

AnySearch(ps, text) == AnySearchLow(ps, Lower(text))

has_translation(filename) == AnySearch(translation_patterns, filename)

is_language_code(text) == AnySearch(language_code_patterns, text)

\* the keys of a pattern table one of whose patterns matches text, in table
\* order: the loop  for key, patterns in table.items(): for pattern in
\* patterns: if re.search(pattern, text): append(key); break
MatchingKeys(table, text) ==
    LET low == Lower(text)
        hit(row) == AnySearchLow(row.patterns, low)
        rows == SelectSeq(table, hit)
    IN  [i \in 1..Len(rows) |-> IF "region" \in DOMAIN rows[i] THEN rows[i].region
                                 ELSE rows[i].special]

RECURSIVE AppendNew(_, _)
\* for x in xs: if x not in acc: acc.append(x)
AppendNew(acc, xs) ==
    IF xs = <<>> THEN acc
    ELSE AppendNew(IF \E i \in 1..Len(acc) : acc[i] = Head(xs) THEN acc
                   ELSE Append(acc, Head(xs)), Tail(xs))

BracketGroupPattern ==
    Pat("[\\(\\[](.*?)[\\)\\]]", Cat(<<Cls("open"), Star(Cls("any")), Cls("close")>>))

ParenTextPattern == Pat("\\(([^)]+)\\)", Cat(<<L("("), Plus(Cls("notrp")), L(")")>>))

BracketTextPattern == Pat("\\[([^\\]]+)\\]", Cat(<<L("["), Plus(Cls("notrb")), L("]")>>))

RECURSIVE PartsScan(_, _)
\* the loop over the comma parts of one bracket group
PartsScan(regions, parts) ==
    IF parts = <<>> THEN regions
    ELSE LET part == Strip(Head(parts))
         IN  PartsScan(IF is_language_code(part) THEN regions
                       ELSE AppendNew(regions,
                                      MatchingKeys(region_patterns, "(" \o part \o ")")),
                       Tail(parts))

RECURSIVE GroupsScan(_, _)
GroupsScan(regions, matches) ==
    IF matches = <<>> THEN regions
    ELSE GroupsScan(PartsScan(regions, SplitComma(Head(matches))), Tail(matches))

\* first pass of detect_regions: the comma-separated parts of every bracket group
BracketScan(filename) == GroupsScan(<<>>, FindAll(BracketGroupPattern, filename, FALSE))

\* second pass of detect_regions: every region one of whose patterns matches
\* the whole file name
WholeNameScan(filename) == MatchingKeys(region_patterns, filename)

\* the two passes of detect_regions run one after the other, whatever the
\* first found
ScannedRegions_BothPasses(filename) ==
    AppendNew(BracketScan(filename), WholeNameScan(filename))

\* the regions found by the two passes: the second runs only if the first found nothing
ScannedRegions(filename) ==
    LET first == BracketScan(filename)
    IN  IF first = <<>> THEN WholeNameScan(filename) ELSE first

\* (match) or [match] is matched by a special-version pattern
IsSpecialText(match) ==
    LET low == Lower(match)
    IN  \E i \in 1..Len(special_patterns) :
            \/ AnySearchLow(special_patterns[i].patterns, "(" \o low \o ")")
            \/ AnySearchLow(special_patterns[i].patterns, "[" \o low \o "]")

SeqToSet(xs) == {xs[i] : i \in 1..Len(xs)}

\* the bracketed texts detect_regions adds to self.unknown_regions when it
\* found no region
UnknownRegionTexts(filename) ==
    IF ScannedRegions(filename) # <<>> THEN {}
    ELSE {m \in SeqToSet(FindAll(ParenTextPattern, filename, TRUE)
                         \o FindAll(BracketTextPattern, filename, TRUE)) :
             /\ ~Contains(m, ",")
             /\ ~IsSpecialText(m)
             /\ Len(m) <= 20}

\* JapanToUSA with the removal of Japan forgotten
JapanToUSA_KeepsJapan(regions) ==
    IF "USA" \in SeqToSet(regions) THEN regions ELSE Append(regions, "USA")

\* [r for r in regions if r != 'Japan'], then USA appended if absent
JapanToUSA(regions) ==
    LET notJapan(r) == r # "Japan"
        rest == SelectSeq(regions, notJapan)
    IN  IF "USA" \in SeqToSet(rest) THEN rest ELSE Append(rest, "USA")

\* detect_regions without its final default to USA
detect_regions_NoDefault(filename) ==
    LET scanned == ScannedRegions(filename)
    IN  IF has_translation(filename) /\ "Japan" \in SeqToSet(scanned)
        THEN JapanToUSA(scanned) ELSE scanned

\* detect_regions answering Unknown where it found no region
detect_regions_UnknownToken(filename) ==
    LET scanned == ScannedRegions(filename)
        translated ==
            IF has_translation(filename)
            THEN IF "Japan" \in SeqToSet(scanned) THEN JapanToUSA(scanned)
                 ELSE IF scanned = <<>> THEN <<"USA">>
                 ELSE scanned
            ELSE scanned
    IN  IF translated = <<>> THEN <<"Unknown">> ELSE translated

\* the return value of detect_regions
detect_regions(filename) ==
    LET scanned == ScannedRegions(filename)
        translated ==
            IF has_translation(filename)
            THEN IF "Japan" \in SeqToSet(scanned) THEN JapanToUSA(scanned)
                 ELSE IF scanned = <<>> \/ scanned = <<"Unknown">> THEN <<"USA">>
                 ELSE scanned
            ELSE scanned
    IN  IF translated = <<>> \/ translated = <<"Unknown">> THEN <<"USA">> ELSE translated

\* the return value of detect_special_versions: every special one of whose
\* patterns matches the file name
detect_special_versions(filename) == MatchingKeys(special_patterns, filename)

\* found_patterns of detect_special_versions: for every special that matches
\* the file name, the first of its patterns that matches
FoundPatterns(filename) ==
    LET low == Lower(filename)
        hit(row) == AnySearchLow(row.patterns, low)
        rows == SelectSeq(special_patterns, hit)
        first(ps) == ps[SetMin({n \in 1..Len(ps) : SearchLow(ps[n], low)})]
    IN  [i \in 1..Len(rows) |-> first(rows[i].patterns)]

\* (match) or [match] is matched by a region pattern
IsRegionText(match) ==
    LET low == Lower(match)
    IN  \E i \in 1..Len(region_patterns) :
            \/ AnySearchLow(region_patterns[i].patterns, "(" \o low \o ")")
            \/ AnySearchLow(region_patterns[i].patterns, "[" \o low \o "]")

\* the keywords that make a bracketed text look like a special version
SpecialKeywords == {"v", "rev", "ver", "alt", "final", "test", "debug"}

\* the bracketed texts detect_special_versions adds to self.unknown_specials
UnknownSpecialTexts(filename) ==
    LET found_patterns == FoundPatterns(filename)
        is_known(m) ==
            \/ AnySearchLow(found_patterns, "(" \o Lower(m) \o ")")
            \/ AnySearchLow(found_patterns, "[" \o Lower(m) \o "]")
            \/ IsRegionText(m)
    IN  {m \in SeqToSet(FindAll(ParenTextPattern, filename, TRUE)
                         \o FindAll(BracketTextPattern, filename, TRUE)) :
             /\ ~is_known(m)
             /\ Len(m) <= 20
             /\ \E keyword \in SpecialKeywords : Contains(Lower(m), keyword)}

\* is_casino_game with the two loops exchanged: a positive match wins
is_casino_game_PositiveFirst(filename) ==
    LET name == Lower(PathStem(filename))
    IN  IF AnySearch(casino_game_patterns, name) THEN TRUE ELSE FALSE

is_casino_game(filename) ==
    LET name == Lower(PathStem(filename))
    IN  IF AnySearch(casino_exclusion_patterns, name) THEN FALSE
        ELSE IF AnySearch(casino_game_patterns, name) THEN TRUE
        ELSE FALSE

is_adult_game(filename) ==
    LET name == Lower(PathStem(filename))
    IN  IF AnySearch(adult_exclusion_patterns, name) THEN FALSE
        ELSE IF AnySearch(adult_game_patterns, name) THEN TRUE
        ELSE FALSE

RECURSIVE DigitRunsFrom(_, _, _)
DigitRunsFrom(text, i, run) ==
    IF i > Len(text) THEN (IF run = "" THEN <<>> ELSE <<run>>)
    ELSE IF IsDigit(Ch(text, i)) THEN DigitRunsFrom(text, i + 1, run \o Ch(text, i))
    ELSE (IF run = "" THEN <<>> ELSE <<run>>) \o DigitRunsFrom(text, i + 1, "")

\* the (\d+) groups of a version pattern's match, in order: the runs of
\* digits of the matched text (in every version pattern all digits are
\* captured, by groups separated by non-digits)
DigitGroups(matched) == DigitRunsFrom(matched, 1, "")

\* int(groups[n]) if the group took part in the match, else 0
GroupInt(groups, n) == IF n <= Len(groups) THEN ParseInt(groups[n]) ELSE 0

\* MatchTuple with a beta given the release stage of a numbered release
MatchTuple_BetaAsRelease(p, matched) ==
    LET nums == DigitGroups(matched)
    IN  IF Contains(p.src, "(alpha|beta)")
        THEN <<IF Contains(matched, "alpha") THEN 0 ELSE 2,
               GroupInt(nums, 1), GroupInt(nums, 2), 0>>
        ELSE IF Contains(p.src, "r(?:ev)?") \/ Contains(p.src, "revision")
        THEN <<2, 0, 0, GroupInt(nums, 1)>>
        ELSE <<2, GroupInt(nums, 1), GroupInt(nums, 2), GroupInt(nums, 3)>>

\* MatchTuple with a revision counted as a revision of release 1.0
MatchTuple_RevisionOfRelease(p, matched) ==
    LET nums == DigitGroups(matched)
    IN  IF Contains(p.src, "(alpha|beta)")
        THEN <<IF Contains(matched, "alpha") THEN 0 ELSE 1,
               GroupInt(nums, 1), GroupInt(nums, 2), 0>>
        ELSE IF Contains(p.src, "r(?:ev)?") \/ Contains(p.src, "revision")
        THEN <<2, 1, 0, GroupInt(nums, 1)>>
        ELSE <<2, GroupInt(nums, 1), GroupInt(nums, 2), GroupInt(nums, 3)>>

\* the tuple detect_version builds from the match of pattern p
MatchTuple(p, matched) ==
    LET nums == DigitGroups(matched)
    IN  IF Contains(p.src, "(alpha|beta)")
        THEN <<IF Contains(matched, "alpha") THEN 0 ELSE 1,
               GroupInt(nums, 1), GroupInt(nums, 2), 0>>
        ELSE IF Contains(p.src, "r(?:ev)?") \/ Contains(p.src, "revision")
        THEN <<2, 0, 0, GroupInt(nums, 1)>>
        ELSE <<2, GroupInt(nums, 1), GroupInt(nums, 2), GroupInt(nums, 3)>>

RECURSIVE VersionFrom(_, _)
\* the loop of detect_version from pattern n on, over the lower-cased name
VersionFrom(n, low) ==
    IF n > Len(version_patterns) THEN <<2, 1, 0, 0>>
    ELSE LET m == FirstMatch(version_patterns[n], low, 1, TRUE)
         IN  IF m[1] # 0 THEN MatchTuple(version_patterns[n], SubSeq(low, m[1], m[2] - 1))
             ELSE VersionFrom(n + 1, low)

detect_version(filename) == VersionFrom(1, Lower(filename))

RECURSIVE TupleLess(_, _)
\* the order of Python tuples: a < b
TupleLess(a, b) ==
    IF a = <<>> THEN b # <<>>
    ELSE IF b = <<>> THEN FALSE
    ELSE IF Head(a) # Head(b) THEN Head(a) < Head(b)
    ELSE TupleLess(Tail(a), Tail(b))

\* version1 is newer than version2
compare_versions(version1, version2) == TupleLess(version2, version1)

(***************************************************************************)
(* Normaliser.                                                             *)
(***************************************************************************)
RECURSIVE SubAll(_, _)
\* for pattern in ps: text = re.sub(pattern, '', text, flags=re.IGNORECASE)
SubAll(ps, text) ==
    IF ps = <<>> \/ text = "" THEN text ELSE SubAll(Tail(ps), Sub(Head(ps), "", text))

RECURSIVE AllPatterns(_)
\* the patterns of a table, in the order of  for patterns in table.values():
\* for pattern in patterns
AllPatterns(table) ==
    IF table = <<>> THEN <<>> ELSE Head(table).patterns \o AllPatterns(Tail(table))

\* the region patterns get_base_filename removes: those written \(...\) or \[...\]
IsTagPattern(p) ==
    \/ StartsWith(p.src, "\\(") /\ EndsWith(p.src, "\\)")
    \/ StartsWith(p.src, "\\[") /\ EndsWith(p.src, "\\]")

EmptyParensPattern ==
    Pat("\\s*\\(\\s*\\)", Cat(<<Star(Cls("s")), L("("), Star(Cls("s")), L(")")>>))

EmptyBracketsPattern ==
    Pat("\\s*\\[\\s*\\]", Cat(<<Star(Cls("s")), L("["), Star(Cls("s")), L("]")>>))

SpacesPattern == Pat("\\s+", Plus(Cls("s")))

\* the stem, with a second extension removed when it is a compression extension
StemOf(filename) ==
    LET name == PathStem(filename)
    IN  IF Lower(PathSuffix(name)) \in {".7z", ".zip", ".rar"} THEN PathStem(name) ELSE name

\* the tag-stripping, empty-bracket and whitespace passes of get_base_filename
StripTags(name) ==
    LET noRegion == SubAll(SelectSeq(AllPatterns(region_patterns), IsTagPattern), name)
        noSpecial == SubAll(AllPatterns(special_patterns), noRegion)
        noVersion == SubAll(version_patterns, noSpecial)
        noParens == Sub(EmptyParensPattern, "", noVersion)
        noBrackets == Sub(EmptyBracketsPattern, "", noParens)
    IN  Strip(Sub(SpacesPattern, " ", noBrackets))

get_base_filename(filename) == StripTags(StemOf(filename))

(***************************************************************************)
(* Extension tables, format scores and folder-based games.                 *)
(***************************************************************************)
\* self.save_state_extensions
save_state_extensions ==
  {
    ".ds0", ".ds1", ".ds2", ".ds3", ".ds4", ".ds5", ".ds6", ".ds7", ".ds8", ".ds9",
    ".fc0", ".fc1", ".fc2", ".fc3", ".fc4", ".fc5", ".fc6", ".fc7", ".fc8", ".fc9",
    ".fla", ".rtc", ".sav", ".sm0", ".sm1", ".sm2", ".sm3", ".sm4", ".sm5", ".sm6",
    ".sm7", ".sm8", ".sm9", ".srm", ".st0", ".st1", ".st2", ".st3", ".st4", ".st5",
    ".st6", ".st7", ".st8", ".st9", ".vb0", ".vb1", ".vb2", ".vb3", ".vb4", ".vb5",
    ".vb6", ".vb7", ".vb8", ".vb9", ".zs0", ".zs1", ".zs2", ".zs3", ".zs4", ".zs5",
    ".zs6", ".zs7", ".zs8", ".zs9" }

\* self.format_preference: the score of every extension of the dict
format_scores ==
  <<
    <<".zip", 1>>, <<".7z", 1>>, <<".rar", 1>>, <<".rom", 5>>, <<".bin", 5>>,
    <<".img", 5>>, <<".raw", 5>>, <<".nes", 10>>, <<".fds", 9>>, <<".unif", 8>>,
    <<".unf", 8>>, <<".nsf", 6>>, <<".nsfe", 6>>, <<".sfc", 10>>, <<".smc", 9>>,
    <<".snes", 10>>, <<".bs", 8>>, <<".spc", 6>>, <<".gb", 10>>, <<".gbc", 10>>,
    <<".cgb", 10>>, <<".sgb", 9>>, <<".dmg", 9>>, <<".gbx", 8>>, <<".gba", 10>>,
    <<".agb", 9>>, <<".mb", 8>>, <<".srl", 9>>, <<".n64", 10>>, <<".z64", 10>>,
    <<".v64", 9>>, <<".u64", 8>>, <<".rom64", 7>>, <<".n64rom", 7>>, <<".usa", 6>>,
    <<".pal", 6>>, <<".jap", 6>>, <<".nds", 10>>, <<".dsi", 9>>, <<".ids", 8>>,
    <<".nds.gba", 7>>, <<".3ds", 10>>, <<".cia", 9>>, <<".3dsx", 8>>, <<".cci", 7>>,
    <<".cxi", 6>>, <<".app", 5>>, <<".tmd", 4>>, <<".tik", 4>>, <<".gcm", 10>>,
    <<".tgc", 9>>, <<".iso", 9>>, <<".ciso", 8>>, <<".wia", 8>>, <<".gcz", 7>>,
    <<".wbfs", 6>>, <<".rvz", 6>>, <<".nkit", 5>>, <<".xci", 10>>, <<".nsp", 9>>,
    <<".nro", 8>>, <<".nca", 7>>, <<".nacp", 6>>, <<".nso", 6>>, <<".npdm", 5>>,
    <<".md", 10>>, <<".smd", 9>>, <<".gen", 10>>, <<".sg", 8>>, <<".sgd", 8>>,
    <<".32x", 10>>, <<".32c", 9>>, <<".sms", 10>>, <<".gg", 10>>, <<".mvs", 10>>,
    <<".sc", 8>>, <<".sf7000", 7>>, <<".chd", 9>>, <<".cue", 8>>, <<".gdi", 8>>,
    <<".mds", 7>>, <<".ccd", 7>>, <<".cdi", 7>>, <<".mdf", 6>>, <<".nrg", 5>>,
    <<".toc", 6>>, <<".m3u", 5>>, <<".dat", 4>>, <<".lst", 4>>, <<".pbp", 9>>,
    <<".cso", 7>>, <<".dax", 6>>, <<".prx", 8>>, <<".psv", 8>>, <<".psx", 9>>,
    <<".ecm", 6>>, <<".ape", 5>>, <<".sub", 4>>, <<".psf", 5>>, <<".minipsf", 5>>,
    <<".psf2", 5>>, <<".minipsf2", 5>>, <<".ps2", 9>>, <<".elf", 8>>, <<".irx", 7>>,
    <<".cnf", 6>>, <<".pkg", 8>>, <<".rap", 7>>, <<".psn", 6>>, <<".p3t", 5>>,
    <<".vpk", 8>>, <<".suprx", 7>>, <<".skprx", 6>>, <<".pce", 10>>, <<".sgx", 9>>,
    <<".hes", 6>>, <<".tg16", 9>>, <<".huc", 8>>, <<".ngp", 10>>, <<".ngc", 9>>,
    <<".ngpc", 10>>, <<".pocket", 8>>, <<".ws", 10>>, <<".wsc", 10>>, <<".pc2", 8>>,
    <<".a26", 10>>, <<".a78", 10>>, <<".lnx", 10>>, <<".lyx", 9>>, <<".o", 7>>,
    <<".jag", 10>>, <<".j64", 9>>, <<".abs", 8>>, <<".cof", 7>>, <<".int", 10>>,
    <<".itv", 9>>, <<".col", 10>>, <<".cv", 9>>, <<".vec", 10>>, <<".gam", 8>>,
    <<".o2", 10>>, <<".xbe", 9>>, <<".xex", 9>>, <<".xcp", 7>>, <<".xbx", 6>>,
    <<".xiso", 8>>, <<".000", 7>>, <<".dvd", 6>>, <<".god", 7>>, <<".xbla", 6>>,
    <<".xbx1", 5>>, <<".min", 10>>, <<".pokemini", 10>>, <<".vb", 10>>,
    <<".vboy", 10>>, <<".sx1", 10>>, <<".sx2", 10>>, <<".d64", 10>>, <<".t64", 9>>,
    <<".prg", 8>>, <<".d81", 9>>, <<".d82", 9>>, <<".g64", 8>>, <<".p64", 8>>,
    <<".x64", 8>>, <<".p00", 7>>, <<".s64", 7>>, <<".d71", 8>>, <<".d80", 8>>,
    <<".cas", 8>>, <<".wav", 6>>, <<".cdt", 7>>, <<".tap", 9>>, <<".tzx", 8>>,
    <<".z80", 9>>, <<".sna", 9>>, <<".scl", 8>>, <<".trd", 8>>, <<".adf", 10>>,
    <<".dms", 8>>, <<".ipf", 9>>, <<".hdf", 8>>, <<".lha", 7>>, <<".lzx", 6>>,
    <<".st", 10>>, <<".msa", 8>>, <<".dim", 7>>, <<".stx", 9>>, <<".cpc", 9>>,
    <<".msx", 9>>, <<".oric", 8>>, <<".sam", 8>>, <<".mgt", 8>>, <<".ti99", 8>>,
    <<".tifiles", 7>>, <<".apple2", 9>>, <<".do", 8>>, <<".po", 8>>, <<".nib", 7>>,
    <<".woz", 10>>, <<".m5", 8>>, <<".pzx", 7>>, <<".coleco", 8>>, <<".adam", 8>>,
    <<".dragon", 8>>, <<".vdk", 7>>, <<".dmk", 7>>, <<".coco", 8>>, <<".neo", 10>>,
    <<".aes", 10>>, <<".ngm", 9>>, <<".mame", 8>>, <<".dol", 9>>, <<".wad", 8>>,
    <<".forwarder", 7>>, <<".atr", 8>>, <<".car", 8>>, <<".dsk", 9>>, <<".ima", 8>>,
    <<".vfd", 7>>, <<".hfe", 6>>, <<".mfm", 5>>, <<".td0", 6>>, <<".scummvm", 8>>,
    <<".gog", 7>>, <<".dos", 6>>, <<".flash", 5>>, <<".swf", 4>>, <<".love", 7>>,
    <<".tic", 6>>, <<".bios", 8>>, <<".firmware", 8>>, <<".gz", 2>>, <<".bz2", 2>>,
    <<".swc", 8>>, <<".fig", 7>>, <<".mgd", 6>>, <<".ufo", 6>>, <<".srm", 3>>,
    <<".sav", 3>>, <<".rtc", 3>>, <<".fla", 3>>, <<".st0", 2>>, <<".st1", 2>>,
    <<".st2", 2>>, <<".st3", 2>>, <<".st4", 2>>, <<".st5", 2>>, <<".st6", 2>>,
    <<".st7", 2>>, <<".st8", 2>>, <<".st9", 2>>, <<".fc0", 2>>, <<".fc1", 2>>,
    <<".fc2", 2>>, <<".fc3", 2>>, <<".fc4", 2>>, <<".fc5", 2>>, <<".fc6", 2>>,
    <<".fc7", 2>>, <<".fc8", 2>>, <<".fc9", 2>>, <<".zs0", 2>>, <<".zs1", 2>>,
    <<".zs2", 2>>, <<".zs3", 2>>, <<".zs4", 2>>, <<".zs5", 2>>, <<".zs6", 2>>,
    <<".zs7", 2>>, <<".zs8", 2>>, <<".zs9", 2>>, <<".sm0", 2>>, <<".sm1", 2>>,
    <<".sm2", 2>>, <<".sm3", 2>>, <<".sm4", 2>>, <<".sm5", 2>>, <<".sm6", 2>>,
    <<".sm7", 2>>, <<".sm8", 2>>, <<".sm9", 2>>, <<".vb0", 2>>, <<".vb1", 2>>,
    <<".vb2", 2>>, <<".vb3", 2>>, <<".vb4", 2>>, <<".vb5", 2>>, <<".vb6", 2>>,
    <<".vb7", 2>>, <<".vb8", 2>>, <<".vb9", 2>>, <<".ds0", 2>>, <<".ds1", 2>>,
    <<".ds2", 2>>, <<".ds3", 2>>, <<".ds4", 2>>, <<".ds5", 2>>, <<".ds6", 2>>,
    <<".ds7", 2>>, <<".ds8", 2>>, <<".ds9", 2>> >>

\* self.rom_extensions
rom_extensions ==
  {
    ".000", ".32c", ".32x", ".3ds", ".3dsx", ".7z", ".a26", ".a78", ".abs", ".adam",
    ".adf", ".aes", ".agb", ".ape", ".app", ".apple2", ".atr", ".bin", ".bios", ".bs",
    ".bz2", ".car", ".cas", ".ccd", ".cci", ".cdi", ".cdt", ".cgb", ".chd", ".cia",
    ".ciso", ".cnf", ".coco", ".cof", ".col", ".coleco", ".cpc", ".cso", ".cue", ".cv",
    ".cxi", ".d64", ".d71", ".d80", ".d81", ".d82", ".dat", ".dax", ".dim", ".dmg",
    ".dmk", ".dms", ".do", ".dol", ".dos", ".dragon", ".ds0", ".ds1", ".ds2", ".ds3",
    ".ds4", ".ds5", ".ds6", ".ds7", ".ds8", ".ds9", ".dsi", ".dsk", ".dvd", ".ecm",
    ".elf", ".fc0", ".fc1", ".fc2", ".fc3", ".fc4", ".fc5", ".fc6", ".fc7", ".fc8",
    ".fc9", ".fds", ".fig", ".firmware", ".fla", ".flash", ".forwarder", ".g64",
    ".gam", ".gb", ".gba", ".gbc", ".gbx", ".gcm", ".gcz", ".gdi", ".gen", ".gg",
    ".god", ".gog", ".gz", ".hdf", ".hes", ".hfe", ".huc", ".ids", ".ima", ".img",
    ".int", ".ipf", ".irx", ".iso", ".itv", ".j64", ".jag", ".jap", ".lha", ".lnx",
    ".love", ".lst", ".lyx", ".lzx", ".m3u", ".m5", ".mame", ".mb", ".md", ".mdf",
    ".mds", ".mfm", ".mgd", ".mgt", ".min", ".minipsf", ".minipsf2", ".msa", ".msx",
    ".mvs", ".n64", ".n64rom", ".nacp", ".nca", ".nds", ".nds.gba", ".neo", ".nes",
    ".ngc", ".ngm", ".ngp", ".ngpc", ".nib", ".nkit", ".npdm", ".nrg", ".nro", ".nsf",
    ".nsfe", ".nso", ".nsp", ".o", ".o2", ".oric", ".p00", ".p3t", ".p64", ".pal",
    ".pbp", ".pc2", ".pce", ".pkg", ".po", ".pocket", ".pokemini", ".prg", ".prx",
    ".ps2", ".psf", ".psf2", ".psn", ".psv", ".psx", ".pzx", ".rap", ".rar", ".raw",
    ".rom", ".rom64", ".rtc", ".rvz", ".s64", ".sam", ".sav", ".sc", ".scl",
    ".scummvm", ".sf7000", ".sfc", ".sg", ".sgb", ".sgd", ".sgx", ".skprx", ".sm0",
    ".sm1", ".sm2", ".sm3", ".sm4", ".sm5", ".sm6", ".sm7", ".sm8", ".sm9", ".smc",
    ".smd", ".sms", ".sna", ".snes", ".spc", ".srl", ".srm", ".st", ".st0", ".st1",
    ".st2", ".st3", ".st4", ".st5", ".st6", ".st7", ".st8", ".st9", ".stx", ".sub",
    ".suprx", ".swc", ".swf", ".sx1", ".sx2", ".t64", ".tap", ".td0", ".tg16", ".tgc",
    ".ti99", ".tic", ".tifiles", ".tik", ".tmd", ".toc", ".trd", ".tzx", ".u64",
    ".ufo", ".unf", ".unif", ".usa", ".v64", ".vb", ".vb0", ".vb1", ".vb2", ".vb3",
    ".vb4", ".vb5", ".vb6", ".vb7", ".vb8", ".vb9", ".vboy", ".vdk", ".vec", ".vfd",
    ".vpk", ".wad", ".wav", ".wbfs", ".wia", ".woz", ".ws", ".wsc", ".x64", ".xbe",
    ".xbla", ".xbx", ".xbx1", ".xci", ".xcp", ".xex", ".xiso", ".z64", ".z80", ".zip",
    ".zs0", ".zs1", ".zs2", ".zs3", ".zs4", ".zs5", ".zs6", ".zs7", ".zs8", ".zs9" }

\* self.format_preference, a dict: the score of each extension it holds
format_preference ==
    [ext \in {format_scores[i][1] : i \in 1..Len(format_scores)} |->
        format_scores[CHOOSE i \in 1..Len(format_scores) : format_scores[i][1] = ext][2]]

is_rom_file(filename) == Lower(PathSuffix(filename)) \in rom_extensions

is_save_state(filename) == Lower(PathSuffix(filename)) \in save_state_extensions

\* self.format_preference.get(ext, 0)
get_format_preference(filename) ==
    LET ext == Lower(PathSuffix(filename))
    IN  IF ext \in DOMAIN format_preference THEN format_preference[ext] ELSE 0

\* the number of entries of a directory that are files and carry extension ext;
\* an entry is a record [name, is_file]
ExtCount(children, ext) ==
    Cardinality({c \in children : c.is_file /\ Lower(PathSuffix(c.name)) = ext})

\* the decision of is_folder_based_game once the directory has been listed,
\* counting the entries that are directories as well
FolderDecision_CountsDirectories(children) ==
    LET all == {[name |-> c.name, is_file |-> TRUE] : c \in children}
        chd_count == ExtCount(all, ".chd")
        cue_count == ExtCount(all, ".cue")
        bin_count == ExtCount(all, ".bin")
        zip_count == ExtCount(all, ".zip")
        iso_count == ExtCount(all, ".iso")
        m3u_count == ExtCount(all, ".m3u")
    IN  \/ chd_count >= 2
        \/ cue_count >= 2
        \/ cue_count >= 1 /\ bin_count >= 1
        \/ chd_count >= 1 /\ zip_count >= 1
        \/ iso_count >= 2
        \/ m3u_count >= 1 /\ (chd_count >= 1 \/ cue_count >= 1 \/ iso_count >= 1)

\* the decision of is_folder_based_game once the directory has been listed
FolderDecision(children) ==
    LET chd_count == ExtCount(children, ".chd")
        cue_count == ExtCount(children, ".cue")
        bin_count == ExtCount(children, ".bin")
        zip_count == ExtCount(children, ".zip")
        iso_count == ExtCount(children, ".iso")
        m3u_count == ExtCount(children, ".m3u")
    IN  \/ chd_count >= 2
        \/ cue_count >= 2
        \/ cue_count >= 1 /\ bin_count >= 1
        \/ chd_count >= 1 /\ zip_count >= 1
        \/ iso_count >= 2
        \/ m3u_count >= 1 /\ (chd_count >= 1 \/ cue_count >= 1 \/ iso_count >= 1)

\* folder_path is a record [is_dir, listable, children]: iterdir() raises
\* PermissionError or OSError when listable is FALSE
is_folder_based_game(folder_path) ==
    IF ~folder_path.is_dir THEN FALSE
    ELSE IF ~folder_path.listable THEN FALSE
    ELSE FolderDecision(folder_path.children)

(***************************************************************************)
(* Inputs: file names are a title, at most MaxTags tags and an extension.  *)
(***************************************************************************)
MaxTags == 2

RECURSIVE Decorations(_, _)
\* the strings made of at most n tags of pool, each preceded by a space
Decorations(pool, n) ==
    IF n = 0 THEN {""}
    ELSE LET shorter == Decorations(pool, n - 1)
         IN  shorter \cup {d \o " " \o t : d \in shorter, t \in pool}

FileNames(titles, pool, exts) ==
    {t \o d \o e : t \in titles, d \in Decorations(pool, MaxTags), e \in exts}

RegionTitles == {"Game", "Japan Quest"}

RegionTags == {"(USA)", "(Europe)", "(J)", "(Japan, Europe)", "[T+Eng]", "(En,Fr,De)",
               "[E]", "(Unl)", "(Beta)", "(Translated)"}

RegionNames == FileNames(RegionTitles, RegionTags, {".nes"})

\* pc: the operation that has run ("start" before any); filename, ret: the
\* argument and the returned value of the classifier applied; folder: the
\* path given to is_folder_based_game; rom_files: the list of files handed to
\* the bulk operations; disk: the files of each existing directory ("." is
\* the ROM directory); locked: the files the operating system refuses to move;
\* move_errors: the files for which "Error moving" was printed; facts: the
\* values the classifiers return for the files of the ROM directory;
\* folder_games: the folder-based games handed to the bulk operations;
\* working: the local rom_files of recommended_cleanup; summary: its summary
\* dictionary; scan_subfolders: the scanning mode; user_input: the line typed
\* at a menu prompt, split into tokens; messages: what the menu printed
\* older_version_action: the policy of config.ini for superseded versions
VARIABLES pc, filename, ret, unknown_regions, unknown_specials,
          folder, rom_files, region_priority, disk, locked, move_errors, facts,
          folder_games, working, summary, scan_subfolders, user_input, messages,
          selected_operations, older_version_action

vars == <<pc, filename, ret, unknown_regions, unknown_specials,
          folder, rom_files, region_priority, disk, locked, move_errors, facts,
          folder_games, working, summary, scan_subfolders, user_input, messages, selected_operations,
          older_version_action>>

fileVars == <<rom_files, region_priority, disk, locked, move_errors, facts>>

menuVars == <<folder_games, working, summary, scan_subfolders, user_input, messages, selected_operations,
          older_version_action>>

\* self.region_priority as __init__ sets it
DefaultPriority == <<"USA", "World", "Europe", "Japan">>

\* no path has been given to is_folder_based_game
NoFolder == folder = [is_dir |-> FALSE, listable |-> FALSE, children |-> {}]

\* no directory has been analysed
NoFiles ==
    /\ rom_files = <<>>
    /\ region_priority = DefaultPriority
    /\ disk = [d \in {"."} |-> {}]
    /\ locked = {}
    /\ move_errors = <<>>
    /\ facts = <<>>

\* no menu is shown and recommended_cleanup has not been called
NoMenu ==
    /\ folder_games = <<>>
    /\ working = <<>>
    /\ summary = <<>>
    /\ scan_subfolders = FALSE
    /\ user_input = ""
    /\ messages = <<>>
    /\ selected_operations = <<>>
    /\ older_version_action = "review"

\* ROMAnalyzer() constructed, about to classify one file name
InitRegions ==
    /\ pc = "start"
    /\ filename \in RegionNames
    /\ ret = <<>>
    /\ unknown_regions = {}
    /\ unknown_specials = {}
    /\ NoFolder
    /\ NoFiles
    /\ NoMenu

DetectRegions ==
    /\ pc = "start"
    /\ pc' = "detect_regions"
    /\ ret' = detect_regions(filename)
    /\ unknown_regions' = unknown_regions \cup UnknownRegionTexts(filename)
    /\ UNCHANGED <<filename, unknown_specials, folder, fileVars, menuVars>>

NextRegions == DetectRegions

SpecRegions == InitRegions /\ [][NextRegions]_vars

(***************************************************************************)
(* get_base_filename applied to one file name.                             *)
(***************************************************************************)
BaseTitles == {"Game", "Dr. Mario"}

\* region, special-version and version decoration, single or multi-region,
\* and two nested groups
BaseTags == {"(USA)", "(Europe)", "(USA, Europe)", "(Beta)", "[!]", "(v1.1)",
             "(())", "((Beta)USA)"}

BaseNames == FileNames(BaseTitles, BaseTags, {".nes", ".zip", ".7z.zip"})

InitBase ==
    /\ pc = "start"
    /\ filename \in BaseNames
    /\ ret = ""
    /\ unknown_regions = {}
    /\ unknown_specials = {}
    /\ NoFolder
    /\ NoFiles
    /\ NoMenu

GetBaseFilename ==
    /\ pc = "start"
    /\ pc' = "get_base_filename"
    /\ ret' = get_base_filename(filename)
    /\ UNCHANGED <<filename, unknown_regions, unknown_specials, folder, fileVars, menuVars>>

NextBase == GetBaseFilename

SpecBase == InitBase /\ [][NextBase]_vars

(***************************************************************************)
(* detect_version applied to one file name.                                *)
(***************************************************************************)
MaxNum == 2

Nums == 0..MaxNum

Digit(n) == DigitChars[n + 1]

AlphaName(n) == "Game (alpha " \o Digit(n) \o ").nes"

BetaName(n) == "Game (USA) (Beta " \o Digit(n) \o ").nes"

Release2Name(a, b) == "Game (v" \o Digit(a) \o "." \o Digit(b) \o ").nes"

Release3Name(a, b, c) ==
    "Game (USA) (v" \o Digit(a) \o "." \o Digit(b) \o "." \o Digit(c) \o ").nes"

AlphaNames == {AlphaName(n) : n \in Nums}

BetaNames == {BetaName(n) : n \in Nums}

ReleaseNames == {Release2Name(a, b) : a, b \in Nums}
                    \cup {Release3Name(a, b, c) : a, b, c \in Nums}

PlainNames == {"Game.nes", "Game (USA).nes"}

RevisionName(n) == "Game (Rev " \o Digit(n) \o ").nes"

RevisionNames == {RevisionName(n) : n \in Nums} \cup {"Game [r" \o Digit(n) \o "].nes" : n \in Nums}

\* names that carry two version markers
MixedNames == {"Game (Beta " \o Digit(n) \o ") (v" \o Digit(a) \o "." \o Digit(b) \o ").nes" :
                   n, a, b \in Nums}
                  \cup {"Game (Rev " \o Digit(n) \o ") (ver " \o Digit(a) \o ").nes" : n, a \in Nums}

VersionNames == AlphaNames \cup BetaNames \cup ReleaseNames \cup PlainNames
                    \cup RevisionNames \cup MixedNames

InitVersion ==
    /\ pc = "start"
    /\ filename \in VersionNames
    /\ ret = <<>>
    /\ unknown_regions = {}
    /\ unknown_specials = {}
    /\ NoFolder
    /\ NoFiles
    /\ NoMenu

DetectVersion ==
    /\ pc = "start"
    /\ pc' = "detect_version"
    /\ ret' = detect_version(filename)
    /\ UNCHANGED <<filename, unknown_regions, unknown_specials, folder, fileVars, menuVars>>

NextVersion == DetectVersion

SpecVersion == InitVersion /\ [][NextVersion]_vars

(***************************************************************************)
(* is_casino_game and is_adult_game applied to one file name.              *)
(***************************************************************************)
CategoryWords == {"Poker", "Pokemon", "Slot", "Machine", "Solitaire", "Casino",
                  "Strip", "Adult", "Swim", "Mario", "Sexy", "Parodius"}

CategoryNames == FileNames({"Game"}, CategoryWords, {" (USA).nes"})

InitCategory ==
    /\ pc = "start"
    /\ filename \in CategoryNames
    /\ ret = FALSE
    /\ unknown_regions = {}
    /\ unknown_specials = {}
    /\ NoFolder
    /\ NoFiles
    /\ NoMenu

IsCasinoGame ==
    /\ pc = "start"
    /\ pc' = "is_casino_game"
    /\ ret' = is_casino_game(filename)
    /\ UNCHANGED <<filename, unknown_regions, unknown_specials, folder, fileVars, menuVars>>

IsAdultGame ==
    /\ pc = "start"
    /\ pc' = "is_adult_game"
    /\ ret' = is_adult_game(filename)
    /\ UNCHANGED <<filename, unknown_regions, unknown_specials, folder, fileVars, menuVars>>

NextCategory == IsCasinoGame \/ IsAdultGame

SpecCategory == InitCategory /\ [][NextCategory]_vars

(***************************************************************************)
(* is_folder_based_game applied to one path.                               *)
(***************************************************************************)
MaxChildren == 3

\* the entries a directory may hold: files of the counted extensions in both
\* letter cases, a file of another extension, and two sub-directories whose
\* names end like disc images
FileEntries ==
    {[name |-> n, is_file |-> TRUE] :
        n \in {"a.chd", "b.CHD", "a.cue", "b.cue", "a.bin", "a.zip", "a.iso", "b.iso",
               "a.m3u", "a.txt"}}

DirEntries == {[name |-> n, is_file |-> FALSE] : n \in {"d.chd", "e.cue"}}

Listings == {c \in SUBSET (FileEntries \cup DirEntries) : Cardinality(c) <= MaxChildren}

\* a path that is not a directory, and directories whose listing succeeds or fails
Folders ==
    {[is_dir |-> FALSE, listable |-> FALSE, children |-> {}]}
        \cup {[is_dir |-> TRUE, listable |-> l, children |-> c] : l \in BOOLEAN, c \in Listings}

InitFolder ==
    /\ pc = "start"
    /\ filename = ""
    /\ ret = FALSE
    /\ unknown_regions = {}
    /\ unknown_specials = {}
    /\ folder \in Folders
    /\ NoFiles
    /\ NoMenu

IsFolderBasedGame ==
    /\ pc = "start"
    /\ pc' = "is_folder_based_game"
    /\ ret' = is_folder_based_game(folder)
    /\ UNCHANGED <<filename, unknown_regions, unknown_specials, folder, fileVars, menuVars>>

NextFolder == IsFolderBasedGame

SpecFolder == InitFolder /\ [][NextFolder]_vars

(***************************************************************************)
(* The bulk operations that resolve duplicates, applied to the files of    *)
(* one ROM directory.                                                      *)
(***************************************************************************)
MaxFiles == 3

\* the files of the ROM directory: one game in several formats and regions,
\* a multi-region file, a save file and a second game
DirectoryFiles ==
    {"Game (USA).zip", "Game (Europe).nes", "Game (Europe).zip", "Game (Japan).zip",
     "Game (Europe) (USA).zip", "Game (USA).srm", "Other (USA).zip"}

\* what get_base_filename, detect_regions, is_save_state and
\* get_format_preference return for each file of the ROM directory
FileFacts ==
    [name \in DirectoryFiles |->
        [base |-> get_base_filename(name),
         regions |-> detect_regions(name),
         save |-> is_save_state(name),
         format |-> get_format_preference(name)]]

RECURSIVE FileLists(_)
\* the lists of at most n distinct files
FileLists(n) ==
    IF n = 0 THEN {<<>>}
    ELSE LET shorter == FileLists(n - 1)
             longest == {l \in shorter : Len(l) = n - 1}
         IN  shorter \cup UNION {{Append(l, f) : f \in DirectoryFiles \ SeqToSet(l)} :
                                    l \in longest}

\* region priorities that load_config accepts
Priorities == {DefaultPriority, <<"Japan", "USA">>, <<"Europe">>}

\* ROM_DELETE before the operation: absent, empty, or holding files of an
\* earlier run whose names collide with files of the ROM directory
DeleteFolders ==
    {[d \in {"."} |-> {}],
     [d \in {".", "ROM_DELETE"} |-> {}],
     [d \in {".", "ROM_DELETE"} |->
        IF d = "." THEN {} ELSE {"Game (Europe).zip", "Game (Europe)_1.zip"}]}

\* f"{counter}"
RECURSIVE Decimal(_)
Decimal(n) ==
    IF n < 10 THEN DigitChars[n + 1]
    ELSE Decimal(n \div 10) \o DigitChars[(n % 10) + 1]

RECURSIVE FreeName(_, _, _)
\* the while destination.exists() loop: the first of name, stem_1.suffix,
\* stem_2.suffix, ... that the folder does not hold
FreeName(existing, name, counter) ==
    LET candidate == IF counter = 0 THEN name
                     ELSE PathStem(name) \o "_" \o Decimal(counter) \o PathSuffix(name)
    IN  IF candidate \in existing THEN FreeName(existing, name, counter + 1)
        ELSE candidate

\* shutil.move raises: the file is gone or locked, or the folder does not exist
MoveFails(d, name, destination_folder) ==
    \/ name \notin d["."]
    \/ name \in locked
    \/ destination_folder \notin DOMAIN d

\* MoveOne listing a file as moved although its move failed
MoveOne_ListsFailures(st, name, destination_folder) ==
    IF MoveFails(st.disk, name, destination_folder)
    THEN [st EXCEPT !.moved = Append(@, name), !.errors = Append(@, name)]
    ELSE LET destination == FreeName(st.disk[destination_folder], name, 0)
         IN  [disk |-> [st.disk EXCEPT !["."] = @ \ {name},
                                       ![destination_folder] = @ \cup {destination}],
              moved |-> Append(st.moved, name),
              errors |-> st.errors]

\* the try block that moves one file; st is a record [disk, moved, errors]
MoveOne(st, name, destination_folder) ==
    IF MoveFails(st.disk, name, destination_folder)
    THEN [st EXCEPT !.errors = Append(@, name)]
    ELSE LET destination == FreeName(st.disk[destination_folder], name, 0)
         IN  [disk |-> [st.disk EXCEPT !["."] = @ \ {name},
                                       ![destination_folder] = @ \cup {destination}],
              moved |-> Append(st.moved, name),
              errors |-> st.errors]

RECURSIVE MoveOthers(_, _, _, _)
\* for rom_file in rom_files_only: if rom_file != best_rom: move it
MoveOthers(st, files, best_rom, destination_folder) ==
    IF files = <<>> THEN st
    ELSE MoveOthers(IF Head(files) # best_rom
                    THEN MoveOne(st, Head(files), destination_folder) ELSE st,
                    Tail(files), best_rom, destination_folder)

\* Path(folder).mkdir(exist_ok=True)
Mkdir(d, name) ==
    IF name \in DOMAIN d THEN d
    ELSE [n \in DOMAIN d \cup {name} |-> IF n = name THEN {} ELSE d[n]]

\* the keys of base_names, a dict, in insertion order
GroupKeys(files) == AppendNew(<<>>, [i \in 1..Len(files) |-> facts[files[i]].base])

\* base_names[base_name]
GroupFiles(files, base_name) ==
    LET inGroup(name) == facts[name].base = base_name
    IN  SelectSeq(files, inGroup)

\* the save files counted among the ROM files
RomFilesOnly_WithSaves(files) == files

\* [f for f in files if not self.is_save_state(f.name)]
RomFilesOnly(files) ==
    LET notSave(name) == ~facts[name].save
    IN  SelectSeq(files, notSave)

\* no file
None == ""

RECURSIVE MaxFormatFrom(_, _)
\* max(actual_roms, key=...): the first file of the highest score
MaxFormatFrom(best, files) ==
    IF files = <<>> THEN best
    ELSE MaxFormatFrom(IF facts[Head(files)].format > facts[best].format
                       THEN Head(files) ELSE best, Tail(files))

\* get_best_format_rom without its save-state filter
get_best_format_rom_CountsSaves(files) ==
    IF files = <<>> THEN None
    ELSE MaxFormatFrom(Head(files), Tail(files))

get_best_format_rom(files) ==
    IF files = <<>> THEN None
    ELSE LET actual_roms == RomFilesOnly(files)
         IN  IF actual_roms = <<>> THEN None
             ELSE MaxFormatFrom(Head(actual_roms), Tail(actual_roms))

RECURSIVE FormatGroups(_, _, _, _)
\* for base_name, files in base_names.items() of move_inferior_format_duplicates
FormatGroups(st, keys, files, destination_folder) ==
    IF keys = <<>> THEN st
    ELSE LET group == GroupFiles(files, Head(keys))
             rom_files_only == RomFilesOnly(group)
             best_rom == get_best_format_rom(group)
         IN  FormatGroups(IF Len(rom_files_only) > 1 /\ best_rom # None
                          THEN MoveOthers(st, rom_files_only, best_rom, destination_folder)
                          ELSE st,
                          Tail(keys), files, destination_folder)

\* the record [disk, moved, errors] the operation ends with
move_inferior_format_duplicates(files, destination_folder) ==
    FormatGroups([disk |-> disk, moved |-> <<>>, errors |-> <<>>],
                 GroupKeys(files), files, destination_folder)

\* get_primary_region returning the first detected region whatever the priority
get_primary_region_FirstDetected(name) ==
    LET regions == facts[name].regions
    IN  IF regions = <<>> THEN "USA" ELSE regions[1]

get_primary_region(name) ==
    LET regions == facts[name].regions
        hits == {i \in 1..Len(region_priority) : region_priority[i] \in SeqToSet(regions)}
    IN  IF regions = <<>> THEN "USA"
        ELSE IF hits # {} THEN region_priority[SetMin(hits)]
        ELSE regions[1]

\* self.region_priority.index(primary_region), len(self.region_priority) on ValueError
PriorityIndex(region) ==
    LET at == {i \in 1..Len(region_priority) : region_priority[i] = region}
    IN  IF at # {} THEN SetMin(at) - 1 ELSE Len(region_priority)

\* float('inf'): above every priority index
Infinity == Len(region_priority) + 1

RECURSIVE BestRegionFrom(_, _, _)
\* the loop that finds the ROM with the highest priority region
BestRegionFrom(best_rom, best_priority, files) ==
    IF files = <<>> THEN best_rom
    ELSE LET priority == PriorityIndex(get_primary_region(Head(files)))
         IN  IF priority < best_priority
             THEN BestRegionFrom(Head(files), priority, Tail(files))
             ELSE BestRegionFrom(best_rom, best_priority, Tail(files))

RECURSIVE RegionGroups(_, _, _)
\* for base_name, files in base_names.items() of handle_duplicate_regions
RegionGroups(st, keys, files) ==
    IF keys = <<>> THEN st
    ELSE LET rom_files_only == RomFilesOnly(GroupFiles(files, Head(keys)))
             best_rom == BestRegionFrom(None, Infinity, rom_files_only)
         IN  RegionGroups(IF Len(rom_files_only) > 1 /\ best_rom # None
                          THEN MoveOthers(st, rom_files_only, best_rom, "ROM_DELETE")
                          ELSE st,
                          Tail(keys), files)

\* handle_duplicate_regions leaving alone the groups whose copies all have
\* one primary region
handle_duplicate_regions_OtherRegionsOnly(files) ==
    LET regional(name) ==
            \E i \in 1..Len(files) :
                /\ facts[files[i]].base = facts[name].base
                /\ ~facts[files[i]].save
                /\ get_primary_region(files[i]) # get_primary_region(name)
        regional_files == SelectSeq(files, regional)
    IN  RegionGroups([disk |-> Mkdir(disk, "ROM_DELETE"), moved |-> <<>>, errors |-> <<>>],
                     GroupKeys(regional_files), regional_files)

\* the record [disk, moved, errors] the operation ends with
handle_duplicate_regions(files) ==
    RegionGroups([disk |-> Mkdir(disk, "ROM_DELETE"), moved |-> <<>>, errors |-> <<>>],
                 GroupKeys(files), files)

\* a ROM directory has been analysed: rom_files lists some of its files
InitFiles ==
    /\ pc = "start"
    /\ filename = ""
    /\ ret = <<>>
    /\ unknown_regions = {}
    /\ unknown_specials = {}
    /\ NoFolder
    /\ facts = FileFacts
    /\ rom_files \in FileLists(MaxFiles)
    /\ region_priority \in Priorities
    /\ \E d \in DeleteFolders : disk = [d EXCEPT !["."] = SeqToSet(rom_files)]
    /\ locked \in {{}} \cup {{rom_files[i]} : i \in 1..Len(rom_files)}
    /\ move_errors = <<>>
    /\ NoMenu

CreateFolders ==
    /\ pc = "start"
    /\ disk' = Mkdir(Mkdir(disk, "ROM_DELETE"), "ROM_REVIEW")
    /\ UNCHANGED <<pc, filename, ret, unknown_regions, unknown_specials, folder,
                   rom_files, region_priority, locked, move_errors, facts, menuVars>>

\* the menu entry that calls move_inferior_format_duplicates; create_folders
\* has run before the menu is shown
MoveInferiorFormatDuplicates ==
    /\ pc = "start"
    /\ "ROM_DELETE" \in DOMAIN disk
    /\ LET st == move_inferior_format_duplicates(rom_files, "ROM_DELETE")
       IN  /\ disk' = st.disk
           /\ ret' = st.moved
           /\ move_errors' = move_errors \o st.errors
    /\ pc' = "move_inferior_format_duplicates"
    /\ UNCHANGED <<filename, unknown_regions, unknown_specials, folder,
                   rom_files, region_priority, locked, facts, menuVars>>

HandleDuplicateRegions ==
    /\ pc = "start"
    /\ LET st == handle_duplicate_regions(rom_files)
       IN  /\ disk' = st.disk
           /\ ret' = st.moved
           /\ move_errors' = move_errors \o st.errors
    /\ pc' = "handle_duplicate_regions"
    /\ UNCHANGED <<filename, unknown_regions, unknown_specials, folder,
                   rom_files, region_priority, locked, facts, menuVars>>

NextFiles == CreateFolders \/ MoveInferiorFormatDuplicates \/ HandleDuplicateRegions

SpecFiles == InitFiles /\ [][NextFiles]_vars

(***************************************************************************)
(* The bulk operations that move files by category and by region, and      *)
(* recommended_cleanup, which the main menu of interactive_cleanup calls.  *)
(***************************************************************************)
MaxRoms == 4

\* the files the ROM directory may hold, in the order the directory lists them
RomNames ==
    <<"Sample (Europe).nes", "Sample (USA) (Beta).nes", "Sample (USA).srm",
      "Sample (USA).nes", "Poker (USA).nes", "Night Life (USA).nes", "Sample (USA).zip">>

\* the folder-based games the ROM directory may hold
GameNames == <<"Disc v1.0 (Japan)", "Disc (USA)">>

\* further files the ROM directory may hold: one of a region outside the
\* main four and a later version of a game
ExtraNames == <<"Sample (Brazil).nes", "Sample (USA) (v1.1).nes">>

\* the files of a folder-based game
GameChildren ==
    {[name |-> "Disc (Disc 1).chd", is_file |-> TRUE],
     [name |-> "Disc (Disc 2).chd", is_file |-> TRUE]}

\* what the classifiers return for each file and folder of the ROM directory
RomFacts ==
    [name \in SeqToSet(RomNames) \cup SeqToSet(ExtraNames) \cup SeqToSet(GameNames) |->
        [base |-> get_base_filename(name),
         regions |-> detect_regions(name),
         save |-> is_save_state(name),
         format |-> get_format_preference(name),
         specials |-> detect_special_versions(name),
         casino |-> is_casino_game(name),
         adult |-> is_adult_game(name),
         version |-> detect_version(name),
         rom |-> is_rom_file(name),
         game |-> name \in SeqToSet(GameNames)
                     /\ is_folder_based_game([is_dir |-> TRUE, listable |-> TRUE,
                                              children |-> GameChildren])]]

RECURSIVE SubSeqs(_, _)
\* the sublists of at most n elements of a list, in the order of the list
SubSeqs(xs, n) ==
    IF xs = <<>> \/ n = 0 THEN {<<>>}
    ELSE SubSeqs(Tail(xs), n) \cup {<<Head(xs)>> \o l : l \in SubSeqs(Tail(xs), n - 1)}

\* the keys of region_folder_mapping
region_folder_mapping ==
    {"USA", "Europe", "Japan", "Asia", "Australia", "Brazil", "Canada", "China",
     "France", "Germany", "Italy", "Korea", "Netherlands", "Spain", "Sweden",
     "Taiwan", "UK", "World"}

\* the folders an earlier run left next to the ROM directory: none, or some
\* that hold entries with the names of files and folders still to be moved
OutputFolders ==
    {[d \in {"."} |-> {}],
     [d \in {".", "Europe", "Japan", "Beta-Proto", "Casino", "ROM_DELETE", "ROM_REVIEW"} |->
        CASE d = "Europe" -> {"Sample (Europe).nes"}
          [] d = "Japan" -> {"Disc v1.0 (Japan)"}
          [] d = "Beta-Proto" -> {"Sample (USA) (Beta).nes", "Sample (USA) (Beta)_1.nes"}
          [] d = "Casino" -> {"Poker (USA).nes"}
          [] d = "ROM_DELETE" -> {"Sample (USA).zip"}
          [] d = "ROM_REVIEW" -> {"Sample (USA) (Beta).nes", "Sample (USA) (Beta)_1.nes"}
          [] OTHER -> {}]}

RECURSIVE FreeFolderName(_, _, _)
\* the while destination.exists() loop of organize_folder_games_by_region:
\* the first of name, name_1, name_2, ... that the region folder does not hold
FreeFolderName(existing, name, counter) ==
    LET candidate == IF counter = 0 THEN name ELSE name \o "_" \o Decimal(counter)
    IN  IF candidate \in existing THEN FreeFolderName(existing, name, counter + 1)
        ELSE candidate

\* MoveFolder numbering a folder the way a file is numbered, before its suffix
MoveFolder_FileNaming(st, name, destination_folder) ==
    IF MoveFails(st.disk, name, destination_folder)
    THEN [st EXCEPT !.errors = Append(@, name)]
    ELSE LET destination == FreeName(st.disk[destination_folder], name, 0)
         IN  [disk |-> [st.disk EXCEPT !["."] = @ \ {name},
                                       ![destination_folder] = @ \cup {destination}],
              moved |-> Append(st.moved, name),
              errors |-> st.errors]

\* the try block that moves one folder-based game
MoveFolder(st, name, destination_folder) ==
    IF MoveFails(st.disk, name, destination_folder)
    THEN [st EXCEPT !.errors = Append(@, name)]
    ELSE LET destination == FreeFolderName(st.disk[destination_folder], name, 0)
         IN  [disk |-> [st.disk EXCEPT !["."] = @ \ {name},
                                       ![destination_folder] = @ \cup {destination}],
              moved |-> Append(st.moved, name),
              errors |-> st.errors]

RECURSIVE MoveEach(_, _, _)
\* for rom_file in files: the try block
MoveEach(st, files, destination_folder) ==
    IF files = <<>> THEN st
    ELSE MoveEach(MoveOne(st, Head(files), destination_folder), Tail(files),
                  destination_folder)

\* the loop of a category move over the files that satisfy its test: the
\* folder is made when the first of them is met
MoveCategory(games, destination_folder) ==
    MoveEach([disk |-> IF games # <<>> THEN Mkdir(disk, destination_folder) ELSE disk,
              moved |-> <<>>, errors |-> <<>>],
             games, destination_folder)

move_casino_games(files, destination_folder) ==
    LET casino(name) == facts[name].casino
    IN  MoveCategory(SelectSeq(files, casino), destination_folder)

move_adult_games(files, destination_folder) ==
    LET adult(name) == facts[name].adult
    IN  MoveCategory(SelectSeq(files, adult), destination_folder)

\* move_beta_proto_games testing for the Proto and Alpha tags only
move_beta_proto_games_ProtoOnly(files, destination_folder) ==
    LET beta(name) == SeqToSet(facts[name].specials) \cap {"Proto", "Alpha"} # {}
    IN  MoveCategory(SelectSeq(files, beta), destination_folder)

move_beta_proto_games(files, destination_folder) ==
    LET beta(name) == SeqToSet(facts[name].specials) \cap {"Beta", "Proto", "Alpha"} # {}
    IN  MoveCategory(SelectSeq(files, beta), destination_folder)

RECURSIVE OrganizeRoms(_, _, _)
\* the loop of organize_roms_by_region
OrganizeRoms(st, files, exclude_usa) ==
    IF files = <<>> THEN st
    ELSE LET primary_region == get_primary_region(Head(files))
         IN  OrganizeRoms(IF (exclude_usa /\ primary_region = "USA")
                               \/ primary_region \notin region_folder_mapping
                          THEN st
                          ELSE MoveOne([st EXCEPT !.disk = Mkdir(@, primary_region)],
                                       Head(files), primary_region),
                          Tail(files), exclude_usa)

\* (name, folder_name) for each moved name
WithFolder(moved) == [i \in 1..Len(moved) |-> <<moved[i], get_primary_region(moved[i])>>]

\* [filename for filename, folder in organized_files]
Filenames(organized) == [i \in 1..Len(organized) |-> organized[i][1]]

organize_roms_by_region(files, exclude_usa) ==
    LET st == OrganizeRoms([disk |-> disk, moved |-> <<>>, errors |-> <<>>],
                           files, exclude_usa)
    IN  [st EXCEPT !.moved = WithFolder(@)]

RECURSIVE OrganizeFolders(_, _, _)
\* the loop of organize_folder_games_by_region
OrganizeFolders(st, games, exclude_usa) ==
    IF games = <<>> THEN st
    ELSE LET primary_region == get_primary_region(Head(games))
         IN  OrganizeFolders(IF (exclude_usa /\ primary_region = "USA")
                                  \/ primary_region \notin region_folder_mapping
                             THEN st
                             ELSE MoveFolder([st EXCEPT !.disk = Mkdir(@, primary_region)],
                                             Head(games), primary_region),
                             Tail(games), exclude_usa)

organize_folder_games_by_region(games, exclude_usa) ==
    LET st == OrganizeFolders([disk |-> disk, moved |-> <<>>, errors |-> <<>>],
                              games, exclude_usa)
    IN  [st EXCEPT !.moved = WithFolder(@)]

\* the working list left as it was after a step
NotMoved_KeepsAll(files, moved) == files

\* [f for f in files if f.name not in moved]
NotMoved(files, moved) ==
    LET stays(name) == name \notin SeqToSet(moved)
    IN  SelectSeq(files, stays)

\* excluded_folders of analyze_directory
excluded_folders ==
    {"ROM_DELETE", "ROM_REVIEW", "Adult", "Casino", "Beta-Proto",
     "Europe", "Japan", "Asia", "Australia", "Brazil", "Canada",
     "China", "France", "Germany", "Italy", "Korea", "Netherlands",
     "Spain", "Sweden", "Taiwan", "UK", "World"}

\* is_dir() of an entry: the directories below the ROM directory's folders are
\* the folder-based games, under their names or under the names a move gave them
IsFolderEntry(name) == \E g \in SeqToSet(GameNames) : StartsWith(name, g)

\* the directories of the ROM directory
TopFolders(d) == (DOMAIN d \ {"."}) \cup {e \in d["."] : IsFolderEntry(e)}

\* iterdir() of a directory of the ROM directory
FolderListing(d, name) ==
    IF name \in DOMAIN d
    THEN {[name |-> e, is_file |-> ~IsFolderEntry(e)] : e \in d[name]}
    ELSE GameChildren

\* directory_path.rglob('*'), the files only: each path is the list of its parts
AllFiles(d) ==
    {<<e>> : e \in {x \in d["."] : ~IsFolderEntry(x)}}
        \cup {<<g, c.name>> : g \in {x \in d["."] : IsFolderEntry(x)}, c \in GameChildren}
        \cup UNION {{<<f, e>> : e \in {x \in d[f] : ~IsFolderEntry(x)}} : f \in DOMAIN d \ {"."}}
        \cup UNION {{<<f, g, c.name>> : g \in {x \in d[f] : IsFolderEntry(x)},
                                        c \in GameChildren} : f \in DOMAIN d \ {"."}}

\* the rom_files and folder_games analyze_directory finds in the ROM
\* directory d, as sets; it returns None when both are empty
analyze_directory(d, subfolders) ==
    LET found == IF subfolders
                 THEN {p \in AllFiles(d) :
                          /\ is_rom_file(p[Len(p)])
                          /\ SeqToSet(p) \cap excluded_folders = {}}
                 ELSE {p \in AllFiles(d) : Len(p) = 1 /\ is_rom_file(p[1])}
        games == {g \in TopFolders(d) :
                     /\ g \notin excluded_folders
                     /\ is_folder_based_game([is_dir |-> TRUE, listable |-> TRUE,
                                              children |-> FolderListing(d, g)])}
    IN  [rom_files |-> found, folder_games |-> games]

\* analyze_directory did not return None
Found(analysis) == analysis.rom_files # {} \/ analysis.folder_games # {}

\* the files of a scan of the ROM directory alone, in the order of the listing
ListedFiles(found) ==
    LET listed(name) == <<name>> \in found
    IN  SelectSeq(RomNames \o ExtraNames, listed)

\* the folder-based games of a scan, in the order of the listing
ListedGames(games) ==
    LET listed(name) == name \in games
    IN  SelectSeq(GameNames, listed)

\* summary as recommended_cleanup initialises it
EmptySummary ==
    [adult_moved |-> <<>>, casino_moved |-> <<>>, beta_proto_moved |-> <<>>,
     region_organized |-> <<>>, folder_games_organized |-> <<>>,
     duplicates_removed |-> <<>>]

\* the number of elements of a list that satisfy a test
Count(files, test(_)) == Len(SelectSeq(files, test))

\* duplicate_region_count of interactive_cleanup
DuplicateRegionCount(files) ==
    LET keys == GroupKeys(files)
        only(k) == RomFilesOnly(GroupFiles(files, keys[k]))
        regions_found(k) == {get_primary_region(only(k)[i]) : i \in 1..Len(only(k))}
        counted == {k \in 1..Len(keys) :
                       Len(only(k)) > 1 /\ Cardinality(regions_found(k)) > 1}
        RECURSIVE Sum(_)
        Sum(ks) == IF ks = {} THEN 0
                   ELSE LET k == CHOOSE x \in ks : TRUE
                        IN  Len(only(k)) - 1 + Sum(ks \ {k})
    IN  Sum(counted)

\* total_to_process of interactive_cleanup
total_to_process ==
    LET adult(name) == facts[name].adult
        casino(name) == facts[name].casino
        beta(name) == SeqToSet(facts[name].specials) \cap {"Beta", "Proto", "Alpha"} # {}
        non_usa(name) ==
            /\ "USA" \notin SeqToSet(facts[name].regions)
            /\ SeqToSet(facts[name].regions) \cap (region_folder_mapping \ {"USA"}) # {}
        folder_non_usa(name) == get_primary_region(name) # "USA"
    IN  Count(rom_files, adult) + Count(rom_files, casino) + Count(rom_files, beta)
            + Count(rom_files, non_usa) + Count(folder_games, folder_non_usa)
            + DuplicateRegionCount(rom_files)

\* main() has analysed the ROM directory and found ROM files in it;
\* interactive_cleanup shows its main menu
InitCleanup ==
    /\ pc = "menu"
    /\ filename = ""
    /\ ret = <<>>
    /\ unknown_regions = {}
    /\ unknown_specials = {}
    /\ NoFolder
    /\ facts = RomFacts
    /\ rom_files \in SubSeqs(RomNames, MaxRoms) \ {<<>>}
    /\ folder_games \in SubSeqs(GameNames, Len(GameNames))
    /\ region_priority \in Priorities
    /\ \E d \in OutputFolders :
          disk = [d EXCEPT !["."] = SeqToSet(rom_files) \cup SeqToSet(folder_games)]
    /\ locked \in {{}} \cup {{rom_files[i]} : i \in 1..Len(rom_files)}
                       \cup {{folder_games[i]} : i \in 1..Len(folder_games)}
    /\ move_errors = <<>>
    /\ working = <<>>
    /\ summary = EmptySummary
    /\ scan_subfolders = FALSE
    /\ user_input = ""
    /\ messages = <<>>
    /\ selected_operations = <<>>
    /\ older_version_action = "review"

\* choice 1 of the main menu, confirmed: recommended_cleanup is called
RecommendedCleanup ==
    /\ pc = "menu"
    /\ rom_files # <<>>
    /\ total_to_process # 0
    /\ pc' = "recommended_cleanup"
    /\ working' = rom_files
    /\ summary' = EmptySummary
    /\ move_errors' = <<>>
    /\ UNCHANGED <<filename, ret, unknown_regions, unknown_specials, folder, rom_files,
                   region_priority, disk, locked, facts, folder_games, scan_subfolders, older_version_action,
                   user_input, messages, selected_operations>>

\* Step 1: Move adult games
MoveAdultGames ==
    /\ pc = "recommended_cleanup"
    /\ LET st == move_adult_games(working, "Adult")
       IN  /\ disk' = st.disk
           /\ summary' = [summary EXCEPT !.adult_moved = st.moved]
           /\ working' = NotMoved(working, st.moved)
           /\ move_errors' = move_errors \o st.errors
    /\ pc' = "move_adult_games"
    /\ UNCHANGED <<filename, ret, unknown_regions, unknown_specials, folder, rom_files,
                   region_priority, locked, facts, folder_games, scan_subfolders, older_version_action,
                   user_input, messages, selected_operations>>

\* Step 2: Move casino games
MoveCasinoGames ==
    /\ pc = "move_adult_games"
    /\ LET st == move_casino_games(working, "Casino")
       IN  /\ disk' = st.disk
           /\ summary' = [summary EXCEPT !.casino_moved = st.moved]
           /\ working' = NotMoved(working, st.moved)
           /\ move_errors' = move_errors \o st.errors
    /\ pc' = "move_casino_games"
    /\ UNCHANGED <<filename, ret, unknown_regions, unknown_specials, folder, rom_files,
                   region_priority, locked, facts, folder_games, scan_subfolders, older_version_action,
                   user_input, messages, selected_operations>>

\* Step 3: Move beta/proto games
MoveBetaProtoGames ==
    /\ pc = "move_casino_games"
    /\ LET st == move_beta_proto_games(working, "Beta-Proto")
       IN  /\ disk' = st.disk
           /\ summary' = [summary EXCEPT !.beta_proto_moved = st.moved]
           /\ working' = NotMoved(working, st.moved)
           /\ move_errors' = move_errors \o st.errors
    /\ pc' = "move_beta_proto_games"
    /\ UNCHANGED <<filename, ret, unknown_regions, unknown_specials, folder, rom_files,
                   region_priority, locked, facts, folder_games, scan_subfolders, older_version_action,
                   user_input, messages, selected_operations>>

\* Step 4: Organize non-USA ROMs by region
OrganizeRomsByRegion ==
    /\ pc = "move_beta_proto_games"
    /\ LET st == organize_roms_by_region(working, TRUE)
       IN  /\ disk' = st.disk
           /\ summary' = [summary EXCEPT !.region_organized = st.moved]
           /\ working' = NotMoved(working, Filenames(st.moved))
           /\ move_errors' = move_errors \o st.errors
    /\ pc' = "organize_roms_by_region"
    /\ UNCHANGED <<filename, ret, unknown_regions, unknown_specials, folder, rom_files,
                   region_priority, locked, facts, folder_games, scan_subfolders, older_version_action,
                   user_input, messages, selected_operations>>

\* Step 5 placed before Step 4
OrganizeFolderGamesByRegion_BeforeRoms ==
    /\ pc = "move_beta_proto_games"
    /\ Len(folder_games) > 0
    /\ LET st == organize_folder_games_by_region(folder_games, TRUE)
       IN  /\ disk' = st.disk
           /\ summary' = [summary EXCEPT !.folder_games_organized = st.moved]
           /\ move_errors' = move_errors \o st.errors
    /\ pc' = "organize_folder_games_by_region"
    /\ UNCHANGED <<filename, ret, unknown_regions, unknown_specials, folder, rom_files,
                   region_priority, locked, facts, folder_games, working,
                   scan_subfolders, older_version_action, user_input, messages, selected_operations>>

\* Step 5: Organize folder-based games, if any were detected
OrganizeFolderGamesByRegion ==
    /\ pc = "organize_roms_by_region"
    /\ Len(folder_games) > 0
    /\ LET st == organize_folder_games_by_region(folder_games, TRUE)
       IN  /\ disk' = st.disk
           /\ summary' = [summary EXCEPT !.folder_games_organized = st.moved]
           /\ move_errors' = move_errors \o st.errors
    /\ pc' = "organize_folder_games_by_region"
    /\ UNCHANGED <<filename, ret, unknown_regions, unknown_specials, folder, rom_files,
                   region_priority, locked, facts, folder_games, working,
                   scan_subfolders, older_version_action, user_input, messages, selected_operations>>

\* Final step: Handle duplicate regions
RemoveDuplicateRegions ==
    /\ \/ pc = "organize_folder_games_by_region"
       \/ pc = "organize_roms_by_region" /\ Len(folder_games) = 0
    /\ LET st == handle_duplicate_regions(working)
       IN  /\ disk' = st.disk
           /\ summary' = [summary EXCEPT !.duplicates_removed = st.moved]
           /\ move_errors' = move_errors \o st.errors
    /\ pc' = "handle_duplicate_regions"
    /\ UNCHANGED <<filename, ret, unknown_regions, unknown_specials, folder, rom_files,
                   region_priority, locked, facts, folder_games, working,
                   scan_subfolders, older_version_action, user_input, messages, selected_operations>>

\* recommended_cleanup has returned: the main menu rescans the directory and
\* shows itself again
Rescan ==
    /\ pc = "handle_duplicate_regions"
    /\ LET updated_analysis == analyze_directory(disk, scan_subfolders)
       IN  IF updated_analysis.rom_files # {}
           THEN /\ rom_files' = ListedFiles(updated_analysis.rom_files)
                /\ folder_games' = ListedGames(updated_analysis.folder_games)
           ELSE UNCHANGED <<rom_files, folder_games>>
    /\ pc' = "menu"
    /\ UNCHANGED <<filename, ret, unknown_regions, unknown_specials, folder,
                   region_priority, disk, locked, move_errors, facts, working, summary,
                   scan_subfolders, older_version_action, user_input, messages, selected_operations>>

NextCleanup ==
    \/ RecommendedCleanup
    \/ MoveAdultGames
    \/ MoveCasinoGames
    \/ MoveBetaProtoGames
    \/ OrganizeRomsByRegion
    \/ OrganizeFolderGamesByRegion
    \/ RemoveDuplicateRegions
    \/ Rescan

SpecCleanup == InitCleanup /\ [][NextCleanup]_vars

(***************************************************************************)
(* The remaining bulk operations and show_advanced_options_menu, which     *)
(* runs the operations the user selects by their numbers.                  *)
(***************************************************************************)
MaxSelected == 2

\* the ROM directory of the advanced menu, in the order the directory lists it
AdvancedNames ==
    <<"Sample (Europe).nes", "Sample (USA) (Beta).nes", "Sample (USA).nes",
      "Poker (USA).nes", "Night Life (USA).nes", "Sample (USA).zip",
      "Sample (Brazil).nes", "Sample (USA) (v1.1).nes">>

\* the loop of move_files_by_criteria, move_files_keep_main_regions and
\* move_all_special_versions over the files whose should_move is true
MoveMatching(files, should_move(_), destination_folder) ==
    MoveEach([disk |-> disk, moved |-> <<>>, errors |-> <<>>],
             SelectSeq(files, should_move), destination_folder)

move_files_by_criteria(files, criteria_type, criteria_value, destination_folder) ==
    LET should_move(name) ==
            CASE criteria_type = "region" ->
                     criteria_value \in SeqToSet(facts[name].regions)
              [] criteria_type = "special" ->
                     criteria_value \in SeqToSet(facts[name].specials)
              [] criteria_type = "unknown_region" ->
                     "Unknown" \in SeqToSet(facts[name].regions)
              [] OTHER -> FALSE
    IN  MoveMatching(files, should_move, destination_folder)

\* keep_regions of move_files_keep_main_regions
keep_regions == {"USA", "Europe", "Japan", "World"}

\* move_files_keep_main_regions deciding by the primary region alone
move_files_keep_main_regions_ByPrimary(files, destination_folder) ==
    LET should_move(name) == get_primary_region(name) \notin keep_regions
    IN  MoveMatching(files, should_move, destination_folder)

move_files_keep_main_regions(files, destination_folder) ==
    LET should_move(name) == SeqToSet(facts[name].regions) \cap keep_regions = {}
    IN  MoveMatching(files, should_move, destination_folder)

move_all_special_versions(files, destination_folder) ==
    LET should_move(name) == facts[name].specials # <<>>
    IN  MoveMatching(files, should_move, destination_folder)

\* the key with the format ahead of the version
VersionKey_FormatFirst(name) == <<facts[name].format>> \o facts[name].version

\* the key of get_best_version_rom: (detect_version, get_format_preference)
VersionKey(name) == facts[name].version \o <<facts[name].format>>

RECURSIVE MaxVersionFrom(_, _)
\* max(actual_roms, key=...): the first file of the highest key
MaxVersionFrom(best, files) ==
    IF files = <<>> THEN best
    ELSE MaxVersionFrom(IF TupleLess(VersionKey(best), VersionKey(Head(files)))
                        THEN Head(files) ELSE best, Tail(files))

get_best_version_rom(files) ==
    IF files = <<>> THEN None
    ELSE LET actual_roms == RomFilesOnly(files)
         IN  IF actual_roms = <<>> THEN None
             ELSE MaxVersionFrom(Head(actual_roms), Tail(actual_roms))

\* len(set(versions_found)) > 1
DifferentVersions(files) ==
    Cardinality({facts[files[i]].version : i \in 1..Len(files)}) > 1

RECURSIVE VersionGroups(_, _, _, _)
\* for base_name, files in base_names.items() of move_older_version_duplicates
VersionGroups(st, keys, files, destination_folder) ==
    IF keys = <<>> THEN st
    ELSE LET rom_files_only == RomFilesOnly(GroupFiles(files, Head(keys)))
             best_rom == get_best_version_rom(rom_files_only)
         IN  VersionGroups(IF Len(rom_files_only) > 1 /\ DifferentVersions(rom_files_only)
                                /\ best_rom # None
                           THEN MoveOthers(st, rom_files_only, best_rom, destination_folder)
                           ELSE st,
                           Tail(keys), files, destination_folder)

\* the record [disk, moved, errors] the operation ends with
move_older_version_duplicates(files, destination_folder) ==
    VersionGroups([disk |-> disk, moved |-> <<>>, errors |-> <<>>],
                  GroupKeys(files), files, destination_folder)

\* the number of files of a list that move_inferior_format_duplicates would move
InferiorFormatCount(files) ==
    Cardinality({i \in 1..Len(files) :
        LET group == GroupFiles(files, facts[files[i]].base)
            best_rom == get_best_format_rom(group)
        IN  /\ ~facts[files[i]].save
            /\ Len(RomFilesOnly(group)) > 1
            /\ best_rom # None
            /\ files[i] # best_rom})

\* the number of files of a list that move_older_version_duplicates would move
OlderVersionCount(files) ==
    Cardinality({i \in 1..Len(files) :
        LET rom_files_only == RomFilesOnly(GroupFiles(files, facts[files[i]].base))
            best_rom == get_best_version_rom(rom_files_only)
        IN  /\ ~facts[files[i]].save
            /\ Len(rom_files_only) > 1
            /\ DifferentVersions(rom_files_only)
            /\ best_rom # None
            /\ files[i] # best_rom})

\* Counter.most_common(): the keys by falling count, equal counts in the
\* order of insertion
MostCommon(keys, count(_)) ==
    LET before(i, j) == \/ count(keys[i]) > count(keys[j])
                        \/ count(keys[i]) = count(keys[j]) /\ i < j
        rank(i) == Cardinality({j \in 1..Len(keys) : before(j, i)}) + 1
    IN  [r \in 1..Len(keys) |-> keys[CHOOSE i \in 1..Len(keys) : rank(i) = r]]

\* region_stats of analyze_directory, as most_common() lists its regions
RegionStats(files) ==
    LET primary == [i \in 1..Len(files) |-> get_primary_region(files[i])]
        count(region) == Cardinality({i \in 1..Len(files) : primary[i] = region})
    IN  MostCommon(AppendNew(<<>>, primary), count)

RECURSIVE SpecialsOf(_)
\* the special versions of the files of a list, one after the other
SpecialsOf(files) ==
    IF files = <<>> THEN <<>>
    ELSE facts[Head(files)].specials \o SpecialsOf(Tail(files))

\* special_stats of analyze_directory, as most_common() lists its tags
SpecialStats(files) ==
    LET found == SpecialsOf(files)
        count(special) == Cardinality({i \in 1..Len(found) : found[i] = special})
    IN  MostCommon(AppendNew(<<>>, found), count)

\* (criteria_type, criteria_value)
Option(criteria_type, criteria_value) == [type |-> criteria_type, value |-> criteria_value]

\* the option, if its count is above zero
Offered(test, option) == IF test THEN <<option>> ELSE <<>>

\* bulk_options of the menu, in the order of their numbers
bulk_options ==
    LET non_usa(name) ==
            /\ "USA" \notin SeqToSet(facts[name].regions)
            /\ SeqToSet(facts[name].regions) \cap (region_folder_mapping \ {"USA"}) # {}
        folder_non_usa(name) == get_primary_region(name) # "USA"
        casino(name) == facts[name].casino
        adult(name) == facts[name].adult
        non_main(name) == SeqToSet(facts[name].regions) \cap keep_regions = {}
        special(name) == facts[name].specials # <<>>
    IN  Offered(Count(rom_files, non_usa) > 0,
                Option("bulk_organize_regions", "organize_by_region"))
        \o Offered(Len(folder_games) > 0 /\ Count(folder_games, folder_non_usa) > 0,
                   Option("bulk_organize_folder_games", "organize_folder_games"))
        \o Offered(Count(rom_files, casino) > 0,
                   Option("bulk_casino_games", "move_casino_games"))
        \o Offered(Count(rom_files, adult) > 0,
                   Option("bulk_adult_games", "move_adult_games"))
        \o Offered(Count(rom_files, non_main) > 0,
                   Option("bulk_keep_main", "keep_main_regions"))
        \o Offered(Count(rom_files, special) > 0,
                   Option("bulk_specials", "move_all_specials"))
        \o Offered(InferiorFormatCount(rom_files) > 0,
                   Option("bulk_format_cleanup", "move_inferior_formats"))
        \o Offered(OlderVersionCount(rom_files) > 0,
                   Option("bulk_version_cleanup", "move_older_versions"))

\* region_options of the menu
region_options ==
    LET stats == RegionStats(rom_files)
        known(region) == region # "Unknown"
        regions == SelectSeq(stats, known)
    IN  [i \in 1..Len(regions) |-> Option("region", regions[i])]
        \o Offered(\E i \in 1..Len(stats) : stats[i] = "Unknown",
                   Option("unknown_region", "Unknown"))

\* special_options of the menu
special_options ==
    LET stats == SpecialStats(rom_files)
    IN  [i \in 1..Len(stats) |-> Option("special", stats[i])]

\* the ROM files a cleanup folder holds
FolderRomFiles(name) ==
    IF name \in DOMAIN disk
    THEN {e \in disk[name] : ~IsFolderEntry(e) /\ is_rom_file(e)}
    ELSE {}

\* management_options of the menu
management_options ==
    Offered(FolderRomFiles("ROM_DELETE") # {}, Option("review_delete", "ROM_DELETE"))
    \o Offered(FolderRomFiles("ROM_REVIEW") # {}, Option("review_review", "ROM_REVIEW"))
    \o Offered(FolderRomFiles("ROM_DELETE") # {} \/ FolderRomFiles("ROM_REVIEW") # {},
               Option("cleanup_all", "all"))
    \o <<Option("remove_script", "script"), Option("toggle_scan_mode", "scan")>>

\* all_options: option number n is all_options[n]
all_options == bulk_options \o region_options \o special_options \o management_options

\* the criteria types of the management options
ManagementTypes ==
    {"review_delete", "review_review", "cleanup_all", "remove_script", "toggle_scan_mode"}

RECURSIVE SplitWords(_, _, _)
\* str.split(): the words of a line between runs of white space
SplitWords(text, i, word) ==
    IF i > Len(text) THEN (IF word = "" THEN <<>> ELSE <<word>>)
    ELSE IF IsSpace(Ch(text, i))
    THEN (IF word = "" THEN <<>> ELSE <<word>>) \o SplitWords(text, i + 1, "")
    ELSE SplitWords(text, i + 1, word \o Ch(text, i))

\* str.isdigit()
IsDigits(word) == word # "" /\ \A i \in 1..Len(word) : IsDigit(Ch(word, i))

\* [int(x.strip()) for x in user_input.split() if x.strip().isdigit()]
Choices(text) ==
    LET digits == SelectSeq(SplitWords(text, 1, ""), IsDigits)
    IN  [i \in 1..Len(digits) |-> ParseInt(digits[i])]

RECURSIVE Join(_)
\* ', '.join(map(str, numbers))
Join(numbers) ==
    IF numbers = <<>> THEN ""
    ELSE IF Len(numbers) = 1 THEN Decimal(Head(numbers))
    ELSE Decimal(Head(numbers)) \o ", " \o Join(Tail(numbers))

\* the lines typed at the prompt of the advanced menu
InputLines == {"", "b", "Q ", "x", "1", "2", "3", "1 2", " 1  X", "1 99"}

\* main() has analysed the ROM directory and found ROM files in it;
\* interactive_cleanup shows its main menu
InitAdvanced ==
    /\ pc = "menu"
    /\ filename = ""
    /\ ret = <<>>
    /\ unknown_regions = {}
    /\ unknown_specials = {}
    /\ NoFolder
    /\ facts = RomFacts
    /\ rom_files \in SubSeqs(AdvancedNames, MaxSelected) \ {<<>>}
    /\ folder_games \in SubSeqs(GameNames, 1)
    /\ region_priority = DefaultPriority
    /\ \E d \in OutputFolders :
          disk = [d EXCEPT !["."] = SeqToSet(rom_files) \cup SeqToSet(folder_games)]
    /\ locked \in {{}} \cup {{rom_files[i]} : i \in 1..Len(rom_files)}
                       \cup {{folder_games[i]} : i \in 1..Len(folder_games)}
    /\ move_errors = <<>>
    /\ working = <<>>
    /\ summary = EmptySummary
    /\ scan_subfolders = FALSE
    /\ user_input = ""
    /\ messages = <<>>
    /\ selected_operations = <<>>
    /\ older_version_action = "review"

\* choice 2 of the main menu: show_advanced_options_menu creates the cleanup
\* folders and shows its options; what an earlier recommended cleanup left
\* behind is out of scope
ShowAdvancedOptionsMenu ==
    /\ pc = "menu"
    /\ pc' = "advanced_menu"
    /\ disk' = Mkdir(Mkdir(disk, "ROM_DELETE"), "ROM_REVIEW")
    /\ messages' = <<>>
    /\ working' = <<>>
    /\ summary' = EmptySummary
    /\ move_errors' = <<>>
    /\ UNCHANGED <<filename, ret, unknown_regions, unknown_specials, folder, rom_files,
                   region_priority, locked, facts, folder_games, scan_subfolders, older_version_action,
                   user_input, selected_operations>>

\* one line is read at the prompt of the advanced menu, parsed, and, if it
\* selects operations, confirmed; the lines read select no management option
SelectOptions ==
    /\ pc = "advanced_menu"
    /\ \E options \in {all_options}, line \in InputLines, confirm \in {"y", "n"} :
              LET text == Lower(Strip(line))
                  choices == Choices(text)
                  back_option_num == Len(options) + 1
                  exit_option_num == Len(options) + 2
                  invalid(choice) == choice \notin 1..Len(options)
                  invalid_choices == SelectSeq(choices, invalid)
                  Answer(position, message, operations) ==
                      /\ pc' = position
                      /\ messages' = message
                      /\ selected_operations' = operations
              IN  /\ \A i \in 1..Len(choices) :
                        ~invalid(choices[i]) => options[choices[i]].type \notin ManagementTypes
                  /\ user_input' = line
                  /\ IF text \in {"b", "back"}
                     THEN Answer("returned", <<"Returning to main menu...">>, <<>>)
                     ELSE IF text \in {"q", "quit"}
                     THEN Answer("exit", <<"Exiting script!">>, <<>>)
                     ELSE IF text = ""
                     THEN Answer("reported",
                                 <<"Please enter at least one option number.">>, <<>>)
                     ELSE IF choices = <<>>
                     THEN Answer("reported", <<"Please enter valid numbers.">>, <<>>)
                     ELSE IF \E i \in 1..Len(choices) : choices[i] = back_option_num
                     THEN Answer("returned", <<"Returning to main menu...">>, <<>>)
                     ELSE IF \E i \in 1..Len(choices) : choices[i] = exit_option_num
                     THEN Answer("exit", <<"Exiting script!">>, <<>>)
                     ELSE IF invalid_choices # <<>>
                     THEN Answer("reported",
                                 <<"Invalid option(s): " \o Join(invalid_choices)>>, <<>>)
                     ELSE IF confirm \notin {"y", "yes"}
                     THEN Answer("reported", <<"Operations cancelled.">>, <<>>)
                     ELSE Answer("execute", <<>>,
                                 [i \in 1..Len(choices) |-> options[choices[i]]])
    /\ move_errors' = <<>>
    /\ UNCHANGED <<filename, ret, unknown_regions, unknown_specials, folder, rom_files,
                   region_priority, disk, locked, facts, folder_games, working,
                   summary, scan_subfolders, older_version_action>>

\* continue: after its report the loop of the menu starts over and shows the
\* options again
Continue ==
    /\ pc = "reported"
    /\ pc' = "advanced_menu"
    /\ user_input' = ""
    /\ messages' = <<>>
    /\ UNCHANGED <<filename, ret, unknown_regions, unknown_specials, folder, rom_files,
                   region_priority, disk, locked, move_errors, facts, folder_games,
                   working, summary, scan_subfolders, older_version_action, selected_operations>>

\* the execution loop is at an operation of one of the given criteria types
Selected(types) ==
    /\ pc = "execute"
    /\ selected_operations # <<>>
    /\ Head(selected_operations).type \in types

\* the end of one round of the execution loop: the moved files are shown
\* and taken out of rom_files
Executed(st, moved_files) ==
    /\ disk' = st.disk
    /\ ret' = moved_files
    /\ move_errors' = move_errors \o st.errors
    /\ rom_files' = IF moved_files # <<>> THEN NotMoved(rom_files, moved_files)
                    ELSE rom_files
    /\ messages' = IF moved_files # <<>> THEN <<"Moved files">>
                   ELSE <<"No files found to move">>
    /\ selected_operations' = Tail(selected_operations)
    /\ pc' = "execute"
    /\ UNCHANGED <<filename, unknown_regions, unknown_specials, folder, region_priority,
                   locked, facts, folder_games, working, summary, scan_subfolders, older_version_action,
                   user_input>>

ExecuteOrganizeRegions ==
    /\ Selected({"bulk_organize_regions"})
    /\ LET st == organize_roms_by_region(rom_files, TRUE)
       IN  Executed(st, Filenames(st.moved))

ExecuteOrganizeFolderGames ==
    /\ Selected({"bulk_organize_folder_games"})
    /\ LET st == organize_folder_games_by_region(folder_games, TRUE)
       IN  Executed(st, Filenames(st.moved))

ExecuteCasinoGames ==
    /\ Selected({"bulk_casino_games"})
    /\ LET st == move_casino_games(rom_files, "Casino")
       IN  Executed(st, st.moved)

ExecuteAdultGames ==
    /\ Selected({"bulk_adult_games"})
    /\ LET st == move_adult_games(rom_files, "Adult")
       IN  Executed(st, st.moved)

ExecuteKeepMain ==
    /\ Selected({"bulk_keep_main"})
    /\ LET st == move_files_keep_main_regions(rom_files, "ROM_DELETE")
       IN  Executed(st, st.moved)

ExecuteSpecials ==
    /\ Selected({"bulk_specials"})
    /\ LET st == move_all_special_versions(rom_files, "ROM_REVIEW")
       IN  Executed(st, st.moved)

ExecuteFormatCleanup ==
    /\ Selected({"bulk_format_cleanup"})
    /\ LET st == move_inferior_format_duplicates(rom_files, "ROM_DELETE")
       IN  Executed(st, st.moved)

\* older_version_action is "review" unless the configuration says "delete"
\* target_folder of the bulk_version_cleanup branch
target_folder == IF older_version_action = "delete" THEN "ROM_DELETE" ELSE "ROM_REVIEW"

ExecuteVersionCleanup ==
    /\ Selected({"bulk_version_cleanup"})
    /\ LET st == move_older_version_duplicates(rom_files, target_folder)
       IN  Executed(st, st.moved)

\* the individual region and special version options
ExecuteCriteria ==
    /\ Selected({"region", "special", "unknown_region"})
    /\ LET criteria_type == Head(selected_operations).type
           criteria_value == Head(selected_operations).value
           destination == IF criteria_type = "unknown_region" THEN "ROM_REVIEW"
                          ELSE "ROM_DELETE"
           st == move_files_by_criteria(rom_files, criteria_type, criteria_value,
                                        destination)
       IN  Executed(st, st.moved)

\* all selected operations have run: the menu rescans the directory and
\* shows itself again, or returns when no ROM file is left; the line read
\* and the list of moved files are out of scope
RescanAfterBatch ==
    /\ pc = "execute"
    /\ selected_operations = <<>>
    /\ LET updated_analysis == analyze_directory(disk, scan_subfolders)
       IN  IF updated_analysis.rom_files # {}
           THEN /\ rom_files' = ListedFiles(updated_analysis.rom_files)
                /\ messages' = <<>>
                /\ pc' = "advanced_menu"
           ELSE /\ rom_files' = rom_files
                /\ messages' = <<"Rescan complete - No ROM files remaining!">>
                /\ pc' = "returned"
    /\ user_input' = ""
    /\ ret' = <<>>
    /\ UNCHANGED <<filename, unknown_regions, unknown_specials, folder,
                   region_priority, disk, locked, move_errors, facts, folder_games,
                   working, summary, scan_subfolders, older_version_action, selected_operations>>

\* show_advanced_options_menu has returned: the main menu rescans the
\* directory and shows itself again
RescanAfterAdvanced ==
    /\ pc = "returned"
    /\ LET updated_analysis == analyze_directory(disk, scan_subfolders)
       IN  IF Found(updated_analysis)
           THEN /\ rom_files' = ListedFiles(updated_analysis.rom_files)
                /\ folder_games' = ListedGames(updated_analysis.folder_games)
           ELSE UNCHANGED <<rom_files, folder_games>>
    /\ pc' = "menu"
    /\ user_input' = ""
    /\ messages' = <<>>
    /\ ret' = <<>>
    /\ move_errors' = <<>>
    /\ UNCHANGED <<filename, unknown_regions, unknown_specials, folder,
                   region_priority, disk, locked, facts, working, summary,
                   scan_subfolders, older_version_action, selected_operations>>

NextAdvanced ==
    \/ ShowAdvancedOptionsMenu
    \/ SelectOptions
    \/ Continue
    \/ ExecuteOrganizeRegions
    \/ ExecuteOrganizeFolderGames
    \/ ExecuteCasinoGames
    \/ ExecuteAdultGames
    \/ ExecuteKeepMain
    \/ ExecuteSpecials
    \/ ExecuteFormatCleanup
    \/ ExecuteVersionCleanup
    \/ ExecuteCriteria
    \/ RescanAfterBatch
    \/ RescanAfterAdvanced

SpecAdvanced == InitAdvanced /\ [][NextAdvanced]_vars

\* interactive_cleanup: the main menu with its recommended cleanup and its
\* advanced options
NextInteractive == NextCleanup \/ NextAdvanced

SpecInteractive == InitAdvanced /\ [][NextInteractive]_vars

(***************************************************************************)
(* main run from the shell in the ROM directory, once after another, with  *)
(* one of the flags --organize-regions (with or without --include-usa),    *)
(* --organize-casino and --organize-adult.  rom_files holds paths here:    *)
(* each path is the list of its parts, as a recursive scan may return      *)
(* files of subfolders.                                                    *)
(***************************************************************************)
MaxRenames == 1

\* the files of the ROM directory before the first run
MainNames ==
    <<"Sample (Europe).nes", "Sample (USA).nes", "Poker (USA).nes",
      "Night Life (USA).nes", "Quest (USA) (Disc 1).chd", "Quest (USA) (Disc 2).chd">>

RECURSIVE Renamed(_, _)
\* the name a file has after n moves to the folder it lies in: f"{stem}_1{suffix}"
Renamed(name, n) ==
    IF n = 0 THEN name
    ELSE Renamed(PathStem(name) \o "_1" \o PathSuffix(name), n - 1)

\* what the classifiers return for the file names of the runs
MainFacts ==
    [name \in {Renamed(MainNames[i], n) : i \in 1..Len(MainNames), n \in 0..MaxRenames} |->
        [regions |-> detect_regions(name),
         casino |-> is_casino_game(name),
         adult |-> is_adult_game(name)]]

\* rom_file.name
PathName(path) == path[Len(path)]

\* the folder of the ROM directory a path lies in
PathFolder(path) == IF Len(path) = 1 THEN "." ELSE path[1]

RECURSIVE ListedPaths(_)
\* the paths of a scan as a list: the listing gives them in any order, and
\* the moves of different files do not depend on one another
ListedPaths(found) ==
    IF found = {} THEN <<>>
    ELSE LET path == CHOOSE p \in found : TRUE
         IN  <<path>> \o ListedPaths(found \ {path})

\* shutil.move raises for a path
MovePathFails(d, path, destination_folder) ==
    \/ PathFolder(path) \notin DOMAIN d
    \/ PathName(path) \notin d[PathFolder(path)]
    \/ path \in locked
    \/ destination_folder \notin DOMAIN d

\* the try block that moves one file given by its path: the free name is
\* looked for before the file leaves its folder
MovePath(st, path, destination_folder) ==
    IF MovePathFails(st.disk, path, destination_folder)
    THEN [st EXCEPT !.errors = Append(@, PathName(path))]
    ELSE LET destination == FreeName(st.disk[destination_folder], PathName(path), 0)
             taken == [st.disk EXCEPT ![PathFolder(path)] = @ \ {PathName(path)}]
         IN  [disk |-> [taken EXCEPT ![destination_folder] = @ \cup {destination}],
              moved |-> Append(st.moved, PathName(path)),
              errors |-> st.errors]

RECURSIVE OrganizePaths(_, _, _)
\* the loop of organize_roms_by_region over paths
OrganizePaths(st, files, exclude_usa) ==
    IF files = <<>> THEN st
    ELSE LET primary_region == get_primary_region(PathName(Head(files)))
         IN  OrganizePaths(IF (exclude_usa /\ primary_region = "USA")
                                \/ primary_region \notin region_folder_mapping
                           THEN st
                           ELSE MovePath([st EXCEPT !.disk = Mkdir(@, primary_region)],
                                         Head(files), primary_region),
                           Tail(files), exclude_usa)

RECURSIVE MovePaths(_, _, _)
\* the loop of move_casino_games and move_adult_games over paths: the folder
\* is made when the first file that satisfies the test is met
MovePaths(st, files, destination_folder) ==
    IF files = <<>> THEN st
    ELSE MovePaths(MovePath([st EXCEPT !.disk = Mkdir(@, destination_folder)],
                            Head(files), destination_folder),
                   Tail(files), destination_folder)

\* the shell prompt in a ROM directory the tool has not sorted yet, or with
\* the folders of an earlier run; config.ini sets the scanning mode
InitMain ==
    /\ pc = "shell"
    /\ filename = ""
    /\ ret = <<>>
    /\ unknown_regions = {}
    /\ unknown_specials = {}
    /\ NoFolder
    /\ facts = MainFacts
    /\ rom_files = <<>>
    /\ folder_games = <<>>
    /\ region_priority = DefaultPriority
    /\ \E d \in OutputFolders, files \in SubSeqs(MainNames, MaxFiles) :
          disk = [d EXCEPT !["."] = SeqToSet(files)]
    /\ locked = {}
    /\ move_errors = <<>>
    /\ working = <<>>
    /\ summary = <<>>
    /\ scan_subfolders \in BOOLEAN
    /\ user_input = ""
    /\ messages = <<>>
    /\ selected_operations = <<>>
    /\ older_version_action = "review"

\* main with the flag given: the directory is analysed and, when the scan
\* found ROM files, operation(files) gives the directory after the
\* operation; file names are followed for MaxRenames renamings
Main(operation(_)) ==
    /\ LET analysis_data == analyze_directory(disk, scan_subfolders)
           files == ListedPaths(analysis_data.rom_files)
       IN  /\ \A i \in 1..Len(files) : PathName(files[i]) \in DOMAIN facts
           /\ rom_files' = files
           /\ folder_games' = ListedPaths(analysis_data.folder_games)
           /\ LET st == IF files = <<>>
                        THEN [disk |-> disk, moved |-> <<>>, errors |-> <<>>]
                        ELSE operation(files)
              IN  /\ disk' = st.disk
                  /\ ret' = st.moved
                  /\ move_errors' = st.errors
    /\ UNCHANGED <<pc, filename, unknown_regions, unknown_specials, folder,
                   region_priority, locked, facts, working, summary, scan_subfolders, older_version_action,
                   user_input, messages, selected_operations>>

\* --organize-regions, with or without --include-usa
MainOrganizeRegions ==
    /\ pc = "shell"
    /\ \E include_usa \in BOOLEAN :
          LET operation(files) ==
                  OrganizePaths([disk |-> disk, moved |-> <<>>, errors |-> <<>>],
                                files, ~include_usa)
          IN  Main(operation)

\* --organize-casino
MainOrganizeCasino ==
    /\ pc = "shell"
    /\ LET casino(path) == facts[PathName(path)].casino
           operation(files) ==
               MovePaths([disk |-> disk, moved |-> <<>>, errors |-> <<>>],
                         SelectSeq(files, casino), "Casino")
       IN  Main(operation)

\* --organize-adult
MainOrganizeAdult ==
    /\ pc = "shell"
    /\ LET adult(path) == facts[PathName(path)].adult
           operation(files) ==
               MovePaths([disk |-> disk, moved |-> <<>>, errors |-> <<>>],
                         SelectSeq(files, adult), "Adult")
       IN  Main(operation)

NextMain == MainOrganizeRegions \/ MainOrganizeCasino \/ MainOrganizeAdult

SpecMain == InitMain /\ [][NextMain]_vars

(***************************************************************************)
(* One ROMAnalyzer classifying the files of its scans one after another:   *)
(* the calls of detect_regions and detect_special_versions add to its      *)
(* unknown_regions and unknown_specials.                                   *)
(***************************************************************************)
\* the file names of a scan: with and without a region, a special version
\* and bracketed texts that no pattern knows
SessionNames ==
    {"Game (Unl).nes", "Game (Debug).nes", "Game (Europe) (v1.1).nes",
     "Game (Beta) (Alt 1).nes", "Game (Japan) [T+Eng].nes"}

\* what a ROMAnalyzer that has classified nothing yet returns for each name
FirstCall ==
    [name \in SessionNames |->
        [regions |-> detect_regions(name), specials |-> detect_special_versions(name)]]

\* ROMAnalyzer() constructed: both accumulators are empty
InitSession ==
    /\ pc = "start"
    /\ filename = ""
    /\ ret = <<>>
    /\ unknown_regions = {}
    /\ unknown_specials = {}
    /\ NoFolder
    /\ rom_files = <<>>
    /\ region_priority = DefaultPriority
    /\ disk = [d \in {"."} |-> {}]
    /\ locked = {}
    /\ move_errors = <<>>
    /\ facts = FirstCall
    /\ NoMenu

\* the statistics loop of analyze_directory takes the next file and asks for
\* its primary region
SessionDetectRegions ==
    /\ pc \in {"start", "detect_special_versions"}
    /\ \E name \in SessionNames :
          /\ filename' = name
          /\ ret' = detect_regions(name)
          /\ unknown_regions' = unknown_regions \cup UnknownRegionTexts(name)
    /\ pc' = "detect_regions"
    /\ UNCHANGED <<unknown_specials, folder, fileVars, menuVars>>

\* detect_special_versions finding no special in a name one of whose
\* bracketed texts is in unknown_specials already
SessionDetectSpecialVersions_ReadsLog ==
    /\ pc = "detect_regions"
    /\ \E name \in {filename} :
          /\ filename' = name
          /\ ret' = IF UnknownSpecialTexts(name) \cap unknown_specials # {} THEN <<>>
                    ELSE detect_special_versions(name)
          /\ unknown_specials' = unknown_specials \cup UnknownSpecialTexts(name)
    /\ pc' = "detect_special_versions"
    /\ UNCHANGED <<unknown_regions, folder, fileVars, menuVars>>

\* then for the special versions of the same file
SessionDetectSpecialVersions ==
    /\ pc = "detect_regions"
    /\ \E name \in {filename} :
          /\ filename' = name
          /\ ret' = detect_special_versions(name)
          /\ unknown_specials' = unknown_specials \cup UnknownSpecialTexts(name)
    /\ pc' = "detect_special_versions"
    /\ UNCHANGED <<unknown_regions, folder, fileVars, menuVars>>

NextSession == SessionDetectRegions \/ SessionDetectSpecialVersions

SpecSession == InitSession /\ [][NextSession]_vars

(***************************************************************************)
(* The bulk operations of the advanced menu that thin out the copies of    *)
(* one game, under every region priority and every policy for superseded   *)
(* versions that load_config accepts.                                      *)
(***************************************************************************)
\* the copies of one game: formats, versions, revisions, regions, a file
\* of two regions, a save file; and a second game whose tag names no region
DuplicateNames ==
    {"Game (USA).zip", "Game (USA).nes", "Game (USA) (v1.1).zip",
     "Game (USA) (Rev 1).zip", "Game (USA) (r2).nes", "Game (USA) [Revision 3].zip",
     "Game (Europe).zip", "Game (Brazil) (Japan).zip",
     "Game (Brazil).zip", "Game (USA).srm", "Other (Unknown).zip"}

\* what the classifiers return for each of these files
DuplicateFacts ==
    [name \in DuplicateNames |->
        [base |-> get_base_filename(name),
         regions |-> detect_regions(name),
         save |-> is_save_state(name),
         format |-> get_format_preference(name),
         version |-> detect_version(name)]]

RECURSIVE DuplicateLists(_)
\* the lists of at most n distinct files
DuplicateLists(n) ==
    IF n = 0 THEN {<<>>}
    ELSE LET shorter == DuplicateLists(n - 1)
             longest == {l \in shorter : Len(l) = n - 1}
         IN  shorter \cup UNION {{Append(l, f) : f \in DuplicateNames \ SeqToSet(l)} :
                                    l \in longest}

\* region priorities of config.ini: the default, one that ranks a region
\* outside keep_regions first, one that lists no region of the files' own
DuplicatePriorities ==
    {DefaultPriority, <<"Brazil", "USA", "Europe", "Japan">>, <<"World">>}

\* the values load_config accepts for older_version_action
older_version_actions == {"delete", "review", "keep"}

\* the advanced menu is about to run one operation on rom_files;
\* create_folders has made the delete and the review folder
InitDuplicates ==
    /\ pc = "start"
    /\ filename = ""
    /\ ret = <<>>
    /\ unknown_regions = {}
    /\ unknown_specials = {}
    /\ NoFolder
    /\ facts = DuplicateFacts
    /\ rom_files \in DuplicateLists(MaxFiles)
    /\ region_priority \in DuplicatePriorities
    /\ disk = [d \in {".", "ROM_DELETE", "ROM_REVIEW"} |->
                 IF d = "." THEN SeqToSet(rom_files) ELSE {}]
    /\ locked \in {{}} \cup {{rom_files[i]} : i \in 1..Len(rom_files)}
    /\ move_errors = <<>>
    /\ folder_games = <<>>
    /\ working = <<>>
    /\ summary = <<>>
    /\ scan_subfolders = FALSE
    /\ user_input = ""
    /\ messages = <<>>
    /\ selected_operations = <<>>
    /\ older_version_action \in older_version_actions

\* the operation has returned the record st
Returned(st, operation) ==
    /\ disk' = st.disk
    /\ ret' = st.moved
    /\ move_errors' = move_errors \o st.errors
    /\ pc' = operation
    /\ UNCHANGED <<filename, unknown_regions, unknown_specials, folder,
                   rom_files, region_priority, locked, facts, menuVars>>

\* criteria_type == 'bulk_keep_main'
KeepMainRegions ==
    /\ pc = "start"
    /\ Returned(move_files_keep_main_regions(rom_files, "ROM_DELETE"),
                "move_files_keep_main_regions")

\* criteria_type == 'bulk_format_cleanup'
KeepBestFormat ==
    /\ pc = "start"
    /\ Returned(move_inferior_format_duplicates(rom_files, "ROM_DELETE"),
                "move_inferior_format_duplicates")

\* criteria_type == 'bulk_version_cleanup'
KeepNewestVersion ==
    /\ pc = "start"
    /\ Returned(move_older_version_duplicates(rom_files, target_folder),
                "move_older_version_duplicates")

\* handle_duplicate_regions, the second step of recommended cleanup
KeepBestRegion ==
    /\ pc = "start"
    /\ Returned(handle_duplicate_regions(rom_files), "handle_duplicate_regions")

\* criteria_type == 'unknown_region'
MoveUnknownRegion ==
    /\ pc = "start"
    /\ Returned(move_files_by_criteria(rom_files, "unknown_region", "Unknown", "ROM_REVIEW"),
                "move_files_by_criteria")

NextDuplicates ==
    \/ KeepMainRegions
    \/ KeepBestFormat
    \/ KeepNewestVersion
    \/ KeepBestRegion
    \/ MoveUnknownRegion

SpecDuplicates == InitDuplicates /\ [][NextDuplicates]_vars

(***************************************************************************)
(* Recommended cleanup of a ROM directory whose files fall under the rule  *)
(* of more than one step.                                                  *)
(***************************************************************************)
\* files of two categories, of a category and a region folder, of a special
\* version and a region folder, and the copies of one game
OverlapNames ==
    <<"Strip Poker (USA).nes", "Sample (Europe) (Beta).nes", "Poker (Europe).nes",
      "Night Life (Europe) (Beta).nes", "Sample (USA).nes", "Sample (Europe).nes",
      "Sample (USA).zip">>

\* what the classifiers return for each of these files and folders
OverlapFacts ==
    [name \in SeqToSet(OverlapNames) \cup SeqToSet(GameNames) |->
        [base |-> get_base_filename(name),
         regions |-> detect_regions(name),
         save |-> is_save_state(name),
         format |-> get_format_preference(name),
         specials |-> detect_special_versions(name),
         casino |-> is_casino_game(name),
         adult |-> is_adult_game(name),
         version |-> detect_version(name),
         rom |-> is_rom_file(name),
         game |-> name \in SeqToSet(GameNames)
                     /\ is_folder_based_game([is_dir |-> TRUE, listable |-> TRUE,
                                              children |-> GameChildren])]]

\* main() has analysed the ROM directory, no output folder exists yet
InitOverlap ==
    /\ pc = "menu"
    /\ filename = ""
    /\ ret = <<>>
    /\ unknown_regions = {}
    /\ unknown_specials = {}
    /\ NoFolder
    /\ facts = OverlapFacts
    /\ rom_files \in SubSeqs(OverlapNames, MaxRoms) \ {<<>>}
    /\ folder_games \in SubSeqs(GameNames, Len(GameNames))
    /\ region_priority \in Priorities
    /\ disk = [d \in {"."} |-> SeqToSet(rom_files) \cup SeqToSet(folder_games)]
    /\ locked \in {{}} \cup {{rom_files[i]} : i \in 1..Len(rom_files)}
    /\ move_errors = <<>>
    /\ working = <<>>
    /\ summary = EmptySummary
    /\ scan_subfolders = FALSE
    /\ user_input = ""
    /\ messages = <<>>
    /\ selected_operations = <<>>
    /\ older_version_action = "review"

SpecOverlap == InitOverlap /\ [][NextCleanup]_vars

(***************************************************************************)
(* Recommended cleanup after a recursive scan: rom_files and working hold  *)
(* paths, and files of different subfolders may share a name.  The ROM     *)
(* directory holds no folder-based game, so the cleanup has five steps.    *)
(***************************************************************************)
\* the paths a recursive scan may return
SubfolderPaths ==
    <<<<"a", "Night Life (Europe).nes">>, <<"b", "Night Life (Europe).nes">>,
      <<"Sample (USA).nes">>, <<"a", "Sample (USA).nes">>,
      <<"b", "Sample (Europe) (Beta).nes">>, <<"Poker (USA).nes">>,
      <<"a", "Sample (Europe).nes">>>>

\* what the classifiers return for the names of these paths
SubfolderFacts ==
    [name \in {PathName(SubfolderPaths[i]) : i \in 1..Len(SubfolderPaths)} |->
        [base |-> get_base_filename(name),
         regions |-> detect_regions(name),
         save |-> is_save_state(name),
         specials |-> detect_special_versions(name),
         casino |-> is_casino_game(name),
         adult |-> is_adult_game(name)]]

\* main() has scanned the ROM directory and its subfolders a and b
InitSubfolders ==
    /\ pc = "menu"
    /\ filename = ""
    /\ ret = <<>>
    /\ unknown_regions = {}
    /\ unknown_specials = {}
    /\ NoFolder
    /\ facts = SubfolderFacts
    /\ rom_files \in SubSeqs(SubfolderPaths, MaxFiles) \ {<<>>}
    /\ folder_games = <<>>
    /\ region_priority = DefaultPriority
    /\ disk = [d \in {".", "a", "b"} |->
                 {PathName(rom_files[i]) : i \in {n \in 1..Len(rom_files) :
                                                     PathFolder(rom_files[n]) = d}}]
    /\ locked \in {{}} \cup {{rom_files[i]} : i \in 1..Len(rom_files)}
    /\ move_errors = <<>>
    /\ working = <<>>
    /\ summary = EmptySummary
    /\ scan_subfolders = TRUE
    /\ user_input = ""
    /\ messages = <<>>
    /\ selected_operations = <<>>
    /\ older_version_action = "review"

\* rom_files = [f for f in rom_files if f.name not in moved]
NotMovedPaths(files, moved) ==
    LET stays(path) == PathName(path) \notin SeqToSet(moved)
    IN  SelectSeq(files, stays)

\* a step of recommended_cleanup has returned the record st
StepDone(st, step, moved) ==
    /\ disk' = st.disk
    /\ summary' = [summary EXCEPT ![moved] = st.moved]
    /\ working' = NotMovedPaths(working, st.moved)
    /\ move_errors' = move_errors \o st.errors
    /\ pc' = step
    /\ UNCHANGED <<filename, ret, unknown_regions, unknown_specials, folder, rom_files,
                   region_priority, locked, facts, folder_games, scan_subfolders,
                   older_version_action, user_input, messages, selected_operations>>

\* choice 1 of the main menu, confirmed
CleanupSubfolders ==
    /\ pc = "menu"
    /\ scan_subfolders
    /\ pc' = "recommended_cleanup"
    /\ working' = rom_files
    /\ summary' = EmptySummary
    /\ move_errors' = <<>>
    /\ UNCHANGED <<filename, ret, unknown_regions, unknown_specials, folder, rom_files,
                   region_priority, disk, locked, facts, folder_games, scan_subfolders,
                   older_version_action, user_input, messages, selected_operations>>

\* Step 1 on paths
AdultStep ==
    /\ pc = "recommended_cleanup"
    /\ scan_subfolders
    /\ LET adult(path) == facts[PathName(path)].adult
       IN  StepDone(MovePaths([disk |-> disk, moved |-> <<>>, errors |-> <<>>],
                              SelectSeq(working, adult), "Adult"),
                    "move_adult_games", "adult_moved")

\* Step 2 on paths
CasinoStep ==
    /\ pc = "move_adult_games"
    /\ scan_subfolders
    /\ LET casino(path) == facts[PathName(path)].casino
       IN  StepDone(MovePaths([disk |-> disk, moved |-> <<>>, errors |-> <<>>],
                              SelectSeq(working, casino), "Casino"),
                    "move_casino_games", "casino_moved")

\* Step 3 on paths
BetaProtoStep ==
    /\ pc = "move_casino_games"
    /\ scan_subfolders
    /\ LET beta(path) == SeqToSet(facts[PathName(path)].specials)
                             \cap {"Beta", "Proto", "Alpha"} # {}
       IN  StepDone(MovePaths([disk |-> disk, moved |-> <<>>, errors |-> <<>>],
                              SelectSeq(working, beta), "Beta-Proto"),
                    "move_beta_proto_games", "beta_proto_moved")

\* Step 4 on paths; the summary keeps the names of the pairs
RegionStep ==
    /\ pc = "move_beta_proto_games"
    /\ scan_subfolders
    /\ StepDone(OrganizePaths([disk |-> disk, moved |-> <<>>, errors |-> <<>>],
                              working, TRUE),
                "organize_roms_by_region", "region_organized")

RECURSIVE BestPathFrom(_, _, _)
\* the loop of handle_duplicate_regions that finds the ROM of the highest
\* priority region, over paths
BestPathFrom(best_rom, best_priority, files) ==
    IF files = <<>> THEN best_rom
    ELSE LET priority == PriorityIndex(get_primary_region(PathName(Head(files))))
         IN  IF priority < best_priority
             THEN BestPathFrom(Head(files), priority, Tail(files))
             ELSE BestPathFrom(best_rom, best_priority, Tail(files))

RECURSIVE MoveOtherPaths(_, _, _)
\* for rom_file in rom_files_only: if rom_file != best_rom: move it
MoveOtherPaths(st, files, best_rom) ==
    IF files = <<>> THEN st
    ELSE MoveOtherPaths(IF Head(files) # best_rom
                        THEN MovePath(st, Head(files), "ROM_DELETE") ELSE st,
                        Tail(files), best_rom)

RECURSIVE DuplicatePaths(_, _, _)
\* for base_name, files in base_names.items() of handle_duplicate_regions,
\* over paths
DuplicatePaths(st, keys, files) ==
    IF keys = <<>> THEN st
    ELSE LET copy(path) == /\ facts[PathName(path)].base = Head(keys)
                           /\ ~facts[PathName(path)].save
             rom_files_only == SelectSeq(files, copy)
         IN  DuplicatePaths(IF Len(rom_files_only) > 1
                            THEN MoveOtherPaths(st, rom_files_only,
                                                BestPathFrom(<<>>, Infinity, rom_files_only))
                            ELSE st,
                            Tail(keys), files)

\* Final step on paths; no folder-based game was handed over, so Step 5
\* is left out; the local list of recommended_cleanup is not used again
DuplicateStep ==
    /\ pc = "organize_roms_by_region"
    /\ scan_subfolders
    /\ Len(folder_games) = 0
    /\ LET st == DuplicatePaths([disk |-> Mkdir(disk, "ROM_DELETE"),
                                 moved |-> <<>>, errors |-> <<>>],
                                AppendNew(<<>>, [i \in 1..Len(working) |->
                                                    facts[PathName(working[i])].base]),
                                working)
       IN  /\ disk' = st.disk
           /\ summary' = [summary EXCEPT !.duplicates_removed = st.moved]
           /\ move_errors' = move_errors \o st.errors
    /\ pc' = "handle_duplicate_regions"
    /\ UNCHANGED <<filename, ret, unknown_regions, unknown_specials, folder, rom_files,
                   region_priority, locked, facts, folder_games, working,
                   scan_subfolders, older_version_action, user_input, messages,
                   selected_operations>>

NextSubfolders ==
    \/ CleanupSubfolders
    \/ AdultStep
    \/ CasinoStep
    \/ BetaProtoStep
    \/ RegionStep
    \/ DuplicateStep

SpecSubfolders == InitSubfolders /\ [][NextSubfolders]_vars

(***************************************************************************)
(* Properties of detect_regions.                                           *)
(***************************************************************************)
\* the file name with its (...) and [...] groups removed
OutsideBrackets(name) == Sub(BracketTextPattern, "", Sub(ParenTextPattern, "", name))

\* C1: detect_regions returns a non-empty list for every file name, and when
\* no region pattern matches in either pass (neither a comma part of a bracket
\* group nor the whole file name) it returns exactly [USA].
C1_RegionsNonEmpty ==
    pc = "detect_regions" =>
        /\ ret # <<>>
        /\ (BracketScan(filename) = <<>> /\ WholeNameScan(filename) = <<>>
                => ret = <<"USA">>)

C1_Witness ==
    /\ pc = "detect_regions"
    /\ BracketScan(filename) = <<>>
    /\ WholeNameScan(filename) = <<>>
    /\ ret = <<"USA">>

\* some Japan pattern matches the file name or one of its bracket parts
CarriesJapanMarker(name) ==
    "Japan" \in SeqToSet(WholeNameScan(name)) \cup SeqToSet(BracketScan(name))

\* C2 as claimed: a file name with a Japan marker and a translation marker
\* yields exactly [USA], whatever other region markers it carries.
C2_JapanTranslationExactlyUSA ==
    (pc = "detect_regions" /\ CarriesJapanMarker(filename) /\ has_translation(filename))
        => ret = <<"USA">>

\* C2 as amended: with a translation marker the result never contains Japan;
\* when the scan detected Japan the result is the other detected regions
\* plus USA, which is exactly [USA] when no other region was detected.
C2_JapanTranslationBecomesUSA ==
    (pc = "detect_regions" /\ has_translation(filename)) =>
        LET scanned == SeqToSet(ScannedRegions(filename))
        IN  /\ "Japan" \notin SeqToSet(ret)
            /\ "Japan" \in scanned =>
                  /\ SeqToSet(ret) = (scanned \ {"Japan"}) \cup {"USA"}
                  /\ (scanned \subseteq {"Japan", "USA"} => ret = <<"USA">>)

C2_Witness ==
    /\ pc = "detect_regions"
    /\ has_translation(filename)
    /\ ScannedRegions(filename) = <<"Japan">>
    /\ ret = <<"USA">>

\* every bracket group of the name is a list of language codes and no region
\* pattern matches outside the groups
OnlyLanguageCodeGroups(name) ==
    LET groups == FindAll(BracketGroupPattern, name, FALSE)
    IN  /\ groups # <<>>
        /\ \A g \in 1..Len(groups) :
               LET parts == SplitComma(groups[g])
               IN  \A n \in 1..Len(parts) : is_language_code(Strip(parts[n]))
        /\ WholeNameScan(OutsideBrackets(name)) = <<>>

\* C3: language codes are never classified as regions: a file name whose
\* bracket groups hold only language codes and that has no region tag yields
\* the default [USA].
C3_LanguageCodesAreNotRegions ==
    (pc = "detect_regions" /\ OnlyLanguageCodeGroups(filename)) => ret = <<"USA">>

(***************************************************************************)
(* Properties of get_base_filename.                                        *)
(***************************************************************************)
\* region, special-version and version decoration only
DecorationTags == {"(USA)", "(Europe)", "(USA, Europe)", "(Beta)", "[!]", "(v1.1)"}

DecoratedNames == FileNames(BaseTitles, DecorationTags, {".nes", ".zip", ".7z.zip"})

\* the undecorated copy of a decorated name: its title with extension .nes
PlainCopy(name) ==
    LET open == FirstStart(Cls("open"), name, 1)
    IN  IF open = 0 THEN StemOf(name) \o ".nes"
        ELSE Strip(SubSeq(name, 1, open - 1)) \o ".nes"

\* C4: two file names that differ only in region (single or multi-region),
\* special-version and version decoration and in extension have the same base
\* name: every decorated name has the base name of the undecorated copy of
\* its title.
C4_DecorationDoesNotChangeBase ==
    (pc = "get_base_filename" /\ filename \in DecoratedNames)
        => ret = get_base_filename(PlainCopy(filename))

\* C5: get_base_filename is idempotent: applied to its own result, as a whole
\* and in its tag-stripping, empty-bracket and whitespace passes, it returns
\* the result unchanged.
C5_BaseIdempotent ==
    pc = "get_base_filename" =>
        /\ get_base_filename(ret) = ret
        /\ StripTags(ret) = ret

(***************************************************************************)
(* Properties of detect_version.                                           *)
(***************************************************************************)
\* C6: release stage dominates the version order: an (alpha N) name is below
\* every (beta M) name, both are below every numbered release (vA.B[.C]) and
\* below the default (2,1,0,0) of a name with no version marker, and numbered
\* releases are ordered as (major, minor, patch) lexicographically.
C6_ReleaseStageDominates ==
    pc = "detect_version" =>
        /\ filename \in PlainNames => ret = <<2, 1, 0, 0>>
        /\ filename \in AlphaNames =>
               \A g \in BetaNames : TupleLess(ret, detect_version(g))
        /\ filename \in AlphaNames \cup BetaNames =>
               \A g \in ReleaseNames \cup PlainNames : TupleLess(ret, detect_version(g))
        /\ \A a, b \in Nums : filename = Release2Name(a, b) =>
               \A a2, b2, c2 \in Nums :
                   /\ TupleLess(ret, detect_version(Release2Name(a2, b2)))
                          <=> TupleLess(<<a, b, 0>>, <<a2, b2, 0>>)
                   /\ TupleLess(ret, detect_version(Release3Name(a2, b2, c2)))
                          <=> TupleLess(<<a, b, 0>>, <<a2, b2, c2>>)
                   /\ TupleLess(detect_version(Release3Name(a2, b2, c2)), ret)
                          <=> TupleLess(<<a2, b2, c2>>, <<a, b, 0>>)

C6_Witness ==
    /\ pc = "detect_version"
    /\ filename = AlphaName(MaxNum)
    /\ ret = <<0, MaxNum, 0, 0>>
    /\ TupleLess(ret, detect_version(BetaName(0)))

(***************************************************************************)
(* Properties of is_casino_game and is_adult_game.                         *)
(***************************************************************************)
\* the patterns of ps that match the lower-cased stem of name
Matching(ps, name) ==
    LET low == Lower(PathStem(name))
    IN  {n \in 1..Len(ps) : SearchLow(ps[n], low)}

\* C7: exclusion precedence: if any exclusion pattern of the category matches
\* the lower-cased stem the result is false however many positive patterns
\* match; otherwise it is true iff at least one positive pattern matches.
C7_ExclusionPrecedence ==
    /\ pc = "is_casino_game" =>
           ret = (/\ Matching(casino_exclusion_patterns, filename) = {}
                  /\ Matching(casino_game_patterns, filename) # {})
    /\ pc = "is_adult_game" =>
           ret = (/\ Matching(adult_exclusion_patterns, filename) = {}
                  /\ Matching(adult_game_patterns, filename) # {})

\* a title matched by an exclusion pattern and by two positive patterns
C7_Witness ==
    /\ pc = "is_casino_game"
    /\ Matching(casino_exclusion_patterns, filename) # {}
    /\ Cardinality(Matching(casino_game_patterns, filename)) >= 2
    /\ ret = FALSE

(***************************************************************************)
(* Properties of is_folder_based_game.                                     *)
(***************************************************************************)
\* the number of immediate child files of the folder with the extension
Files(ext) ==
    Cardinality({c \in folder.children : c.is_file /\ Lower(PathSuffix(c.name)) = ext})

\* the extensions of which two files, or one file beside a playlist, make a
\* folder-based game
DiscExtensions == {".chd", ".cue", ".iso"}

\* the directory qualifies by the counts of its immediate child files: two
\* files of one of the extensions .chd, .cue, .iso, or a .cue and a .bin, or
\* a .chd and a .zip, or a .m3u and a .chd, .cue or .iso
QualifiesByCounts ==
    \/ \E ext \in DiscExtensions : Files(ext) >= 2
    \/ Files(".cue") >= 1 /\ Files(".bin") >= 1
    \/ Files(".chd") >= 1 /\ Files(".zip") >= 1
    \/ Files(".m3u") >= 1 /\ \E ext \in DiscExtensions : Files(ext) >= 1

\* the only counted file of the directory is one .cue
OneCueAlone ==
    /\ Files(".cue") = 1
    /\ \A ext \in {".chd", ".bin", ".zip", ".iso", ".m3u"} : Files(ext) = 0

\* C10: is_folder_based_game is a function of the extension counts of the
\* immediate child files only: a directory is a folder-based game exactly
\* when it qualifies by these counts; two .chd files give true, and one .cue
\* with no .bin gives false
C10_FolderGameIffCounts ==
    pc = "is_folder_based_game" /\ folder.is_dir =>
        /\ ret <=> QualifiesByCounts
        /\ Files(".chd") = 2 => ret
        /\ OneCueAlone => ~ret

\* C10 as amended: the same for a directory whose listing succeeds; a
\* directory whose listing fails is not a folder-based game
C10_FolderGameIffCountsWhenListed ==
    pc = "is_folder_based_game" /\ folder.is_dir =>
        IF folder.listable
        THEN /\ ret <=> QualifiesByCounts
             /\ Files(".chd") = 2 => ret
             /\ OneCueAlone => ~ret
        ELSE ~ret

\* a listed directory of two .chd files and a sub-directory, found to be a game
C10_Witness ==
    /\ pc = "is_folder_based_game"
    /\ folder.is_dir /\ folder.listable
    /\ Files(".chd") = 2
    /\ \E c \in folder.children : ~c.is_file
    /\ ret = TRUE

(***************************************************************************)
(* Properties of the duplicate resolution.                                 *)
(***************************************************************************)
\* the base identities of the listed files
BaseGroups == {facts[rom_files[i]].base : i \in 1..Len(rom_files)}

\* the positions in the scan order of the files of a group
GroupItems(b) == {i \in 1..Len(rom_files) : facts[rom_files[i]].base = b}

\* those that are not save files
NonSaveItems(b) == {i \in GroupItems(b) : ~facts[rom_files[i]].save}

\* ROM_DELETE before the operation
OldDelete == IF "ROM_DELETE" \in DOMAIN disk THEN disk["ROM_DELETE"] ELSE {}

\* the names under which a file may arrive in ROM_DELETE
Renamings(name) ==
    {name} \cup {PathStem(name) \o "_" \o Decimal(k) \o PathSuffix(name) :
                    k \in 1..(Cardinality(OldDelete) + Len(rom_files))}

\* the operation took the file out of the ROM directory and put it in ROM_DELETE
MovedToDelete(name) ==
    /\ name \in disk["."] /\ name \notin disk'["."]
    /\ \E n \in Renamings(name) : n \in disk'["ROM_DELETE"] \ OldDelete
    /\ \E k \in 1..Len(ret') : ret'[k] = name

\* the operation left the file where it was
LeftInPlace(name) ==
    /\ name \in disk["."] /\ name \in disk'["."]
    /\ \A k \in 1..Len(ret') : ret'[k] # name

\* the non-save item of the highest format score, the first of them in scan order
BestFormatItem(b) ==
    CHOOSE i \in NonSaveItems(b) :
        \A j \in NonSaveItems(b) :
            /\ facts[rom_files[j]].format <= facts[rom_files[i]].format
            /\ j < i => facts[rom_files[j]].format < facts[rom_files[i]].format

\* C8: move_inferior_format_duplicates leaves in place, in every group of
\* more than one non-save item, the non-save item of the highest format score
\* (the first in scan order among equals) and moves every other non-save item
\* of the group to ROM_DELETE; it leaves the groups of at most one non-save
\* item untouched
C8_KeepBestFormat ==
    [][pc' = "move_inferior_format_duplicates" =>
        \A b \in BaseGroups :
            IF Cardinality(NonSaveItems(b)) > 1
            THEN \A i \in NonSaveItems(b) :
                    IF i = BestFormatItem(b) THEN LeftInPlace(rom_files[i])
                    ELSE MovedToDelete(rom_files[i])
            ELSE \A i \in GroupItems(b) : LeftInPlace(rom_files[i])]_vars

\* the operation moved the file to ROM_DELETE, or its move failed: the
\* failure was reported and the file is where it was
MovedOrFailed(name) ==
    \/ MovedToDelete(name)
    \/ /\ \E k \in 1..Len(move_errors') : move_errors'[k] = name
       /\ LeftInPlace(name)

\* C8 as amended: every other non-save item of the group is moved to
\* ROM_DELETE unless its move fails, and then it stays in place
C8_KeepBestFormatUnlessMoveFails ==
    [][pc' = "move_inferior_format_duplicates" =>
        \A b \in BaseGroups :
            IF Cardinality(NonSaveItems(b)) > 1
            THEN \A i \in NonSaveItems(b) :
                    IF i = BestFormatItem(b)
                    THEN /\ LeftInPlace(rom_files[i])
                         /\ \A k \in 1..Len(move_errors') : move_errors'[k] # rom_files[i]
                    ELSE MovedOrFailed(rom_files[i])
            ELSE \A i \in GroupItems(b) : LeftInPlace(rom_files[i])]_vars

\* three files of one game were listed: the best was kept, one was moved to
\* ROM_DELETE and the move of the other failed, leaving it in place
C8_Witness ==
    /\ pc = "move_inferior_format_duplicates"
    /\ Len(rom_files) = 3 /\ Len(ret) = 1 /\ Len(move_errors) = 1
    /\ \A i \in 1..3 : facts[rom_files[i]].base = facts[rom_files[1]].base
    /\ ret[1] \notin disk["."]
    /\ move_errors[1] \in disk["."]
    /\ \E i \in 1..3 : /\ rom_files[i] \in disk["."]
                       /\ rom_files[i] # move_errors[1]
                       /\ \A j \in 1..3 : facts[rom_files[j]].format <= facts[rom_files[i]].format

\* the primary region of a file: the first entry of the priority list among
\* its regions, else its first detected region
PrimaryRegion(name) ==
    LET found == {i \in 1..Len(region_priority) :
                    \E k \in 1..Len(facts[name].regions) :
                        facts[name].regions[k] = region_priority[i]}
    IN  IF found = {} THEN facts[name].regions[1]
        ELSE region_priority[CHOOSE i \in found : \A j \in found : i <= j]

\* the index of the primary region in the priority list, counted from 0; the
\* length of the list when it is absent
Rank(name) ==
    LET r == PrimaryRegion(name)
        at == {i \in 1..Len(region_priority) : region_priority[i] = r}
    IN  IF at = {} THEN Len(region_priority)
        ELSE (CHOOSE i \in at : \A j \in at : i <= j) - 1

\* the non-save item of the lowest rank, the first of them in scan order
BestRegionItem(b) ==
    CHOOSE i \in NonSaveItems(b) :
        \A j \in NonSaveItems(b) :
            /\ Rank(rom_files[i]) <= Rank(rom_files[j])
            /\ j < i => Rank(rom_files[i]) < Rank(rom_files[j])

\* the operation selected the file for removal: it tried to move it
SelectedForRemoval(name) == MovedOrFailed(name)

\* C9: handle_duplicate_regions keeps, in every group of more than one non-save
\* item, the item whose primary region has the lowest index in the priority
\* list (an absent region counting as the length of the list, ties going to
\* the first item in scan order), and selects every other non-save item of the
\* group for removal to ROM_DELETE
C9_KeepBestRegion ==
    [][pc' = "handle_duplicate_regions" =>
        \A b \in BaseGroups :
            Cardinality(NonSaveItems(b)) > 1 =>
                \A i \in NonSaveItems(b) :
                    IF i = BestRegionItem(b)
                    THEN /\ LeftInPlace(rom_files[i])
                         /\ \A k \in 1..Len(move_errors') : move_errors'[k] # rom_files[i]
                    ELSE SelectedForRemoval(rom_files[i])]_vars

\* a multi-region file listed second was kept for its priority region, and the
\* single-region file listed first was moved
C9_Witness ==
    /\ pc = "handle_duplicate_regions"
    /\ Len(rom_files) >= 2
    /\ Len(facts[rom_files[2]].regions) = 2
    /\ facts[rom_files[1]].base = facts[rom_files[2]].base
    /\ rom_files[2] \in disk["."]
    /\ ret # <<>> /\ ret[1] = rom_files[1]

(***************************************************************************)
(* Properties of recommended_cleanup.                                      *)
(***************************************************************************)
\* the files of the end-to-end scenario, as the directory lists them
SampleFiles ==
    <<"Sample (Europe).nes", "Sample (USA) (Beta).nes", "Sample (USA).srm",
      "Sample (USA).nes">>

\* recommended_cleanup was called on the files of the scenario, found in a
\* flat directory: no folder-based game, and no folder that holds anything
\* but files of the scenario
SampleRun ==
    /\ rom_files = SampleFiles
    /\ folder_games = <<>>
    /\ \A f \in DOMAIN disk \ {"."} : disk[f] \subseteq SeqToSet(SampleFiles)

\* "Error moving" was printed for the file
MoveFailed(name) == \E k \in 1..Len(move_errors) : move_errors[k] = name

\* C11 as stated: recommended cleanup of the scenario moves the Beta copy to
\* Beta-Proto, its duplicate-region step removes the Europe copy, and it ends
\* with exactly Sample (USA).nes and Sample (USA).srm in the main directory
C11_DuplicateStepRemovesEurope ==
    (pc = "handle_duplicate_regions" /\ SampleRun) =>
        /\ summary.beta_proto_moved = <<"Sample (USA) (Beta).nes">>
        /\ summary.duplicates_removed = <<"Sample (Europe).nes">>
        /\ disk["."] = {"Sample (USA).nes", "Sample (USA).srm"}

\* C11: recommended cleanup of the scenario moves the Beta copy to Beta-Proto
\* unless that move fails, and the Europe copy is moved to the Europe folder
\* by the region-organize step unless that move fails; the save file is never
\* moved; when no move fails the duplicate-region step removes nothing and
\* the main directory ends with exactly Sample (USA).nes and Sample (USA).srm
C11_RegionStepMovesEurope ==
    (pc = "handle_duplicate_regions" /\ SampleRun) =>
        /\ ~MoveFailed("Sample (USA) (Beta).nes") =>
              /\ summary.beta_proto_moved = <<"Sample (USA) (Beta).nes">>
              /\ "Sample (USA) (Beta).nes" \in disk["Beta-Proto"]
        /\ ~MoveFailed("Sample (Europe).nes") =>
              /\ summary.region_organized = <<<<"Sample (Europe).nes", "Europe">>>>
              /\ "Sample (Europe).nes" \in disk["Europe"]
        /\ "Sample (USA).srm" \in disk["."]
        /\ move_errors = <<>> =>
              /\ summary.duplicates_removed = <<>>
              /\ disk["."] = {"Sample (USA).nes", "Sample (USA).srm"}

\* the scenario has run without a failure: the Beta copy is in Beta-Proto, the
\* Europe copy in Europe, and ROM_DELETE is empty
C11_Witness ==
    /\ pc = "handle_duplicate_regions"
    /\ SampleRun
    /\ move_errors = <<>>
    /\ disk["Beta-Proto"] = {"Sample (USA) (Beta).nes"}
    /\ disk["Europe"] = {"Sample (Europe).nes"}
    /\ disk["ROM_DELETE"] = {}
    /\ disk["."] = {"Sample (USA).nes", "Sample (USA).srm"}

\* C12 as stated: the steps of recommended cleanup run in the order adult,
\* casino, beta/proto, folder-based games by region, single files by region,
\* duplicate regions
C12_FoldersBeforeSingleFiles ==
    [][/\ pc' = "move_adult_games" => pc = "recommended_cleanup"
       /\ pc' = "move_casino_games" => pc = "move_adult_games"
       /\ pc' = "move_beta_proto_games" => pc = "move_casino_games"
       /\ pc' = "organize_folder_games_by_region" => pc = "move_beta_proto_games"
       /\ pc' = "organize_roms_by_region" =>
             \/ pc = "organize_folder_games_by_region"
             \/ pc = "move_beta_proto_games" /\ folder_games = <<>>
       /\ pc' = "handle_duplicate_regions" => pc = "organize_roms_by_region"]_vars

\* C12: the steps of recommended cleanup run in the order adult, casino,
\* beta/proto, single files by region, folder-based games by region (a step
\* taken only when folder-based games were handed over), duplicate regions;
\* each step starts where the one before it ended, and none is left out
C12_SingleFilesBeforeFolders ==
    [][/\ pc' = "move_adult_games" <=> pc = "recommended_cleanup"
       /\ pc' = "move_casino_games" <=> pc = "move_adult_games"
       /\ pc' = "move_beta_proto_games" <=> pc = "move_casino_games"
       /\ pc' = "organize_roms_by_region" <=> pc = "move_beta_proto_games"
       /\ pc' = "organize_folder_games_by_region" <=>
             pc = "organize_roms_by_region" /\ folder_games # <<>>
       /\ pc' = "handle_duplicate_regions" <=>
             \/ pc = "organize_folder_games_by_region"
             \/ pc = "organize_roms_by_region" /\ folder_games = <<>>]_vars

\* a run in which both region steps moved something has reached its last step
C12_Witness ==
    /\ pc = "handle_duplicate_regions"
    /\ summary.region_organized # <<>>
    /\ summary.folder_games_organized # <<>>

(***************************************************************************)
(* Properties of the bulk operations, as recommended_cleanup and the       *)
(* advanced menu run them.                                                 *)
(***************************************************************************)
\* the positions a step of recommended_cleanup leaves the program in
CleanupSteps ==
    {"move_adult_games", "move_casino_games", "move_beta_proto_games",
     "organize_roms_by_region", "organize_folder_games_by_region",
     "handle_duplicate_regions"}

\* the criteria type of the operation a step runs, or the position a step of
\* recommended_cleanup leaves the program in
Operation ==
    IF pc = "execute" /\ selected_operations # <<>>
    THEN Head(selected_operations).type
    ELSE pc'

\* this step runs one bulk operation
OperationStep ==
    \/ pc = "execute" /\ selected_operations # <<>>
    \/ pc # pc' /\ pc' \in CleanupSteps

\* the moved-list of the operation that ran last
LastMoved ==
    CASE pc = "move_adult_games" -> summary.adult_moved
      [] pc = "move_casino_games" -> summary.casino_moved
      [] pc = "move_beta_proto_games" -> summary.beta_proto_moved
      [] pc = "organize_roms_by_region" -> Filenames(summary.region_organized)
      [] pc = "organize_folder_games_by_region" ->
             Filenames(summary.folder_games_organized)
      [] pc = "handle_duplicate_regions" -> summary.duplicates_removed
      [] OTHER -> ret

\* the failures this step reports
NewErrors == SubSeq(move_errors', Len(move_errors) + 1, Len(move_errors'))

\* the list this step's operation works on
WorkingList ==
    IF Operation \in {"bulk_organize_folder_games", "organize_folder_games_by_region"}
    THEN folder_games
    ELSE IF pc = "execute" THEN rom_files ELSE working

\* the files of the working list that share a file's base name and are no
\* save files
Copies(name) ==
    {WorkingList[i] : i \in {j \in 1..Len(WorkingList) :
        /\ facts[WorkingList[j]].base = facts[name].base
        /\ ~facts[WorkingList[j]].save}}

\* the operation of this step applies to the item by the item's own
\* properties
Qualifies(name) ==
    LET regions == SeqToSet(facts[name].regions)
        specials == SeqToSet(facts[name].specials)
        op == Operation
    IN  CASE op \in {"bulk_adult_games", "move_adult_games"} -> facts[name].adult
          [] op \in {"bulk_casino_games", "move_casino_games"} -> facts[name].casino
          [] op = "move_beta_proto_games" -> specials \cap {"Beta", "Proto", "Alpha"} # {}
          [] op \in {"bulk_organize_regions", "organize_roms_by_region",
                     "bulk_organize_folder_games", "organize_folder_games_by_region"} ->
                 get_primary_region(name) \in region_folder_mapping \ {"USA"}
          [] op = "bulk_keep_main" -> regions \cap {"USA", "Europe", "Japan", "World"} = {}
          [] op = "bulk_specials" -> specials # {}
          [] op = "region" -> Head(selected_operations).value \in regions
          [] op = "special" -> Head(selected_operations).value \in specials
          [] OTHER -> FALSE

\* the operation of this step keeps one file of each group of copies
KeepsOnePerGroup ==
    Operation \in {"bulk_format_cleanup", "bulk_version_cleanup", "handle_duplicate_regions"}

\* the operation of this step resolves the group of copies of the file
GroupQualifies(name) ==
    /\ Cardinality(Copies(name)) > 1
    /\ Operation = "bulk_version_cleanup" =>
           Cardinality({facts[c].version : c \in Copies(name)}) > 1

\* C13: in every bulk operation a failure to move an item is reported and
\* leaves the item where it was, the moved-list holds exactly the items whose
\* move succeeded, and every other item the operation applies to is still
\* attempted
C13_PartialFailureTolerated ==
    [][OperationStep =>
          LET moved == SeqToSet(LastMoved')
              failed == SeqToSet(NewErrors)
              items == SeqToSet(WorkingList)
          IN  /\ moved = disk["."] \ disk'["."]
              /\ Len(LastMoved') = Cardinality(moved)
              /\ moved \cap failed = {}
              /\ \A name \in failed : name \in disk["."] => name \in disk'["."]
              /\ moved \cup failed \subseteq items
              /\ ~KeepsOnePerGroup =>
                    moved \cup failed = {name \in items : Qualifies(name)}
              /\ KeepsOnePerGroup =>
                    \A name \in items :
                       LET attempted == Copies(name) \cap (moved \cup failed)
                       IN  IF ~facts[name].save /\ GroupQualifies(name)
                           THEN Cardinality(attempted) = Cardinality(Copies(name)) - 1
                           ELSE attempted = {}]_vars

\* a single operation of the advanced menu has failed to move one file and
\* has moved a file that the directory lists after it
C13_Witness ==
    /\ pc = "execute"
    /\ user_input = "1"
    /\ selected_operations = <<>>
    /\ Len(move_errors) = 1
    /\ Len(ret) = 1
    /\ move_errors[1] \in disk["."]
    /\ ret[1] \notin disk["."]
    /\ \E i, j \in 1..Len(AdvancedNames) :
          i < j /\ AdvancedNames[i] = move_errors[1] /\ AdvancedNames[j] = ret[1]

\* the entries of all folders, each with its folder
Entries(d) == UNION {{<<f, e>> : e \in d[f]} : f \in DOMAIN d}

\* <stem>_<n><ext> for a file and <folder name>_<n> for a folder-based game
Numbered(name, n) ==
    IF name \in SeqToSet(GameNames) THEN name \o "_" \o Decimal(n)
    ELSE PathStem(name) \o "_" \o Decimal(n) \o PathSuffix(name)

\* the item arrived in folder f under its own name, or under its name with
\* the smallest number from 1 on that was free
ArrivedIn(name, f) ==
    \/ name \in disk'[f] \ disk[f]
    \/ /\ name \in disk[f]
       /\ \E n \in 1..(Cardinality(disk'[f]) + 1) :
             /\ Numbered(name, n) \in disk'[f] \ disk[f]
             /\ \A k \in 1..(n - 1) : Numbered(name, k) \in disk'[f]

\* C14: no step overwrites an entry: every entry of a destination folder is
\* still there after the step, every item that left the ROM directory is a
\* new entry of a folder, under its name or under <stem>_<n><ext>, for a
\* folder <folder name>_<n>, with the smallest free n from 1 on
C14_MovesNeverOverwrite ==
    [][/\ \A f \in DOMAIN disk \ {"."} : f \in DOMAIN disk' /\ disk[f] \subseteq disk'[f]
       /\ Cardinality(Entries(disk')) = Cardinality(Entries(disk))
       /\ \A name \in disk["."] \ disk'["."] :
             \E f \in DOMAIN disk' \ {"."} :
                IF f \in DOMAIN disk THEN ArrivedIn(name, f) ELSE name \in disk'[f]]_vars

\* a folder-based game and a file have been moved into folders that held
\* entries of their names, and have been numbered
C14_Witness ==
    /\ "Japan" \in DOMAIN disk
    /\ {"Disc v1.0 (Japan)", "Disc v1.0 (Japan)_1"} \subseteq disk["Japan"]
    /\ "ROM_REVIEW" \in DOMAIN disk
    /\ "Sample (USA) (Beta)_2.nes" \in disk["ROM_REVIEW"]

\* no item of the working list satisfies the selection rule of this step's
\* operation
NothingQualifies ==
    \A name \in SeqToSet(WorkingList) :
       IF KeepsOnePerGroup THEN facts[name].save \/ ~GroupQualifies(name)
       ELSE ~Qualifies(name)

\* C15: a bulk operation that finds no qualifying item returns an empty
\* moved-list, reports no error, moves nothing and creates no folder: it
\* leaves the directory tree as it was
C15_NothingQualifiesNoOp ==
    [][OperationStep /\ NothingQualifies =>
          /\ LastMoved' = <<>>
          /\ NewErrors = <<>>
          /\ disk' = disk]_vars

\* the items of a list are entries of the ROM directory
Exist(items) == SeqToSet(items) \subseteq disk["."]

\* C16: whenever a menu is shown or a bulk operation starts, every file and
\* every folder-based game of the working set is still where the scan found
\* it, also after a rescan that found no ROM file
C16_NoStaleReferences ==
    /\ pc \in {"menu", "advanced_menu"} => Exist(rom_files) /\ Exist(folder_games)
    /\ pc = "execute" /\ selected_operations # <<>> =>
           Exist(rom_files) /\ Exist(folder_games)
    /\ pc \in {"recommended_cleanup", "move_adult_games", "move_casino_games",
                "move_beta_proto_games"} => Exist(working)
    /\ pc = "organize_roms_by_region" => Exist(working) /\ Exist(folder_games)
    /\ pc = "organize_folder_games_by_region" => Exist(working)

\* the names of the folders the tool creates
OutputFolderNames ==
    {"ROM_DELETE", "ROM_REVIEW", "Adult", "Casino", "Beta-Proto"} \cup region_folder_mapping

\* C17: the result of a scan, recursive or not, holds no file that lies in a
\* folder the tool created, and reports no such folder as a folder-based
\* game, also after Organize-by-region has included USA
C17_ScanSkipsOutputFolders ==
    /\ \A i \in 1..Len(rom_files) :
          \A j \in 1..(Len(rom_files[i]) - 1) : rom_files[i][j] \notin OutputFolderNames
    /\ \A i \in 1..Len(folder_games) : folder_games[i] \notin OutputFolderNames

\* a line typed at the advanced menu, not one of the commands b, back, q and
\* quit, with a token that is not one of the n option numbers on offer
InvalidSelection(line, n) ==
    LET text == Lower(Strip(line))
        tokens == SplitWords(text, 1, "")
    IN  /\ text \notin {"b", "back", "q", "quit"}
        /\ \E i \in 1..Len(tokens) :
              ~IsDigits(tokens[i]) \/ ParseInt(tokens[i]) \notin 1..n

\* C18: a line with a token that is not an offered option number is
\* reported back at the prompt and changes nothing, whatever valid option
\* numbers it holds besides: no operation is selected or run, no item is
\* moved, and the working set and the settings stay as they were
C18_InvalidSelectionRejected ==
    [][pc = "advanced_menu" /\ pc' # "advanced_menu"
          /\ InvalidSelection(user_input', Len(all_options) + 2) =>
              /\ pc' = "reported"
              /\ messages' # <<>>
              /\ selected_operations' = <<>>
              /\ UNCHANGED <<disk, rom_files, folder_games, region_priority,
                             scan_subfolders, older_version_action>>]_vars

AlphaBetaFamily == SubSeq(version_patterns, 11, 12)

RevisionFamily == SubSeq(version_patterns, 7, 10)

\* C20: detect_version tries the families in the order alpha/beta with a
\* number, revision, standard numeric and returns on the first that matches:
\* a name with a (beta N) and a (vA.B) marker gets the beta tuple (1, N, 0, 0),
\* and a name with a revision and a standard numeric marker gets the
\* revision tuple
C20_FamilyPriority ==
    pc = "detect_version" =>
        /\ AnySearch(AlphaBetaFamily, filename) => ret[1] \in {0, 1}
        /\ ~AnySearch(AlphaBetaFamily, filename) /\ AnySearch(RevisionFamily, filename) =>
               ret[1] = 2 /\ ret[2] = 0 /\ ret[3] = 0
        /\ \A n, a, b \in Nums :
               filename = "Game (Beta " \o Digit(n) \o ") (v" \o Digit(a) \o "."
                              \o Digit(b) \o ").nes" => ret = <<1, n, 0, 0>>
        /\ \A n, a \in Nums :
               filename = "Game (Rev " \o Digit(n) \o ") (ver " \o Digit(a) \o ").nes" =>
                   ret = <<2, 0, 0, n>>

(***************************************************************************)
(* Properties of the operations on the copies of one game.                 *)
(***************************************************************************)
\* the files an operation tried to move: moved, or named in an error
Attempted == SeqToSet(ret) \cup SeqToSet(move_errors)

\* C21 as stated: Keep-main-regions moves a file exactly when its primary
\* region is none of USA, Europe, Japan, World, under every priority order
C21_MovesByPrimaryRegion ==
    pc = "move_files_keep_main_regions" =>
        \A i \in 1..Len(rom_files) :
            rom_files[i] \in Attempted <=> get_primary_region(rom_files[i]) \notin keep_regions

\* C21: Keep-main-regions moves a file exactly when no region of its region
\* set is one of USA, Europe, Japan, World, whatever the priority order; a
\* file it selects is moved unless its move fails
C21_MovesByRegionSet ==
    pc = "move_files_keep_main_regions" =>
        \A i \in 1..Len(rom_files) :
            /\ rom_files[i] \in Attempted
                   <=> SeqToSet(facts[rom_files[i]].regions) \cap keep_regions = {}
            /\ rom_files[i] \in SeqToSet(ret)
                   <=> /\ SeqToSet(facts[rom_files[i]].regions) \cap keep_regions = {}
                       /\ rom_files[i] \notin locked

\* Keep-main-regions has moved a file and has left in place a file whose
\* primary region is Brazil and whose region set holds Japan
C21_Witness ==
    /\ pc = "move_files_keep_main_regions"
    /\ ret # <<>>
    /\ \E i \in 1..Len(rom_files) :
           /\ get_primary_region(rom_files[i]) \notin keep_regions
           /\ SeqToSet(facts[rom_files[i]].regions) \cap keep_regions # {}
           /\ rom_files[i] \in disk["."]

\* the files of rom_files that are no saves and share a base name, in order
CopiesOf(base_name) ==
    LET copy(name) == facts[name].base = base_name /\ ~facts[name].save
    IN  SelectSeq(rom_files, copy)

\* the base names of the files of rom_files
BaseNamesOf(files) == {facts[files[i]].base : i \in 1..Len(files)}

\* b is newer than a, or as new and of a better format
Supersedes(b, a) ==
    \/ TupleLess(facts[a].version, facts[b].version)
    \/ /\ facts[a].version = facts[b].version
       /\ facts[a].format < facts[b].format

\* the copy that none supersedes, the first of them in scan order
Newest(copies) ==
    LET top == {i \in 1..Len(copies) :
                   \A j \in 1..Len(copies) : ~Supersedes(copies[j], copies[i])}
    IN  copies[SetMin(top)]

\* the copies come in at least two versions
SeveralVersions(copies) ==
    /\ Len(copies) > 1
    /\ \E i, j \in 1..Len(copies) : facts[copies[i]].version # facts[copies[j]].version

\* C22: Keep-newest-version acts only on the base names with more than one
\* copy and at least two versions; there it keeps the first copy of the
\* highest (version, format) and moves every other copy, also the copies of
\* the newest version; the copies of every other base name and the saves
\* are left alone; a move is missing only where it failed
C22_KeepsNewestVersion ==
    pc = "move_older_version_duplicates" =>
        /\ \A base_name \in BaseNamesOf(rom_files) :
               LET copies == CopiesOf(base_name)
               IN  SeqToSet(copies) \cap Attempted =
                       IF SeveralVersions(copies)
                       THEN SeqToSet(copies) \ {Newest(copies)}
                       ELSE {}
        /\ \A i \in 1..Len(rom_files) : facts[rom_files[i]].save => rom_files[i] \notin Attempted
        /\ SeqToSet(ret) = Attempted \ locked
        /\ disk["."] = SeqToSet(rom_files) \ SeqToSet(ret)

\* Keep-newest-version has kept one copy of the newest version for its
\* format and has moved another copy of that version and an older one
C22_Witness ==
    /\ pc = "move_older_version_duplicates"
    /\ \E i, j, k \in 1..Len(rom_files) :
           /\ rom_files[i] \in disk["."]
           /\ rom_files[j] \in SeqToSet(ret)
           /\ rom_files[k] \in SeqToSet(ret)
           /\ facts[rom_files[j]].version = facts[rom_files[i]].version
           /\ facts[rom_files[j]].format < facts[rom_files[i]].format
           /\ TupleLess(facts[rom_files[k]].version, facts[rom_files[i]].version)

(***************************************************************************)
(* Properties of the two passes of detect_regions.                         *)
(***************************************************************************)
\* the title that names a region, and the file name with that title
\* replaced by a title that names none
RegionTitle == "Japan Quest"

Retitled(name) ==
    IF StartsWith(name, RegionTitle) THEN "Game" \o Drop(name, Len(RegionTitle)) ELSE name

\* C23: the whole-name pass runs only when the bracket pass found no region:
\* whenever a bracketed tag is recognised as a region, every region returned
\* was found in a bracket group (or is the USA a translation puts in for
\* Japan), and the region words of the title change nothing in the result
C23_BracketScanPrecedence ==
    pc = "detect_regions" =>
        \A first \in {BracketScan(filename)} :
            first # <<>> =>
                /\ SeqToSet(ret) \subseteq SeqToSet(first) \cup {"USA"}
                /\ StartsWith(filename, RegionTitle)
                       => ret = detect_regions(Retitled(filename))

\* a file whose title names Japan and whose tag names Europe has been
\* classified as Europe alone
C23_Witness ==
    /\ pc = "detect_regions"
    /\ StartsWith(filename, RegionTitle)
    /\ "Japan" \in SeqToSet(WholeNameScan(filename))
    /\ BracketScan(filename) = <<"Europe">>
    /\ ret = <<"Europe">>

\* C24: under the policy keep for superseded versions Keep-newest-version
\* moves no file: every file stays in the ROM directory and the delete and
\* the review folder receive nothing
C24_KeepPolicyMovesNothing ==
    (pc = "move_older_version_duplicates" /\ older_version_action = "keep") =>
        /\ ret = <<>>
        /\ disk["."] = SeqToSet(rom_files)
        /\ disk["ROM_DELETE"] = {}
        /\ disk["ROM_REVIEW"] = {}

(***************************************************************************)
(* Properties of the steps of recommended cleanup on files that fall under *)
(* several rules.                                                          *)
(***************************************************************************)
\* the values of pc after a step of recommended cleanup
StepsDone ==
    {"move_adult_games", "move_casino_games", "move_beta_proto_games",
     "organize_roms_by_region", "organize_folder_games_by_region",
     "handle_duplicate_regions"}

\* the names of every list of a summary, one after the other
MovedLists(s) ==
    s.adult_moved \o s.casino_moved \o s.beta_proto_moved
        \o Filenames(s.region_organized) \o Filenames(s.folder_games_organized)
        \o s.duplicates_removed

\* the step that just ran did not try to move what an earlier step had
\* moved, no name is in two lists of the summary, and at the end of a
\* cleanup without a failed move every file is in the list of the first
\* step whose rule it satisfies
OneStepPerItem ==
    (pc' \in StepsDone /\ pc' # pc) =>
        /\ Cardinality(SeqToSet(MovedLists(summary'))) = Len(MovedLists(summary'))
        /\ SeqToSet(SubSeq(move_errors', Len(move_errors) + 1, Len(move_errors')))
               \cap SeqToSet(MovedLists(summary)) = {}
        /\ (pc' = "handle_duplicate_regions" /\ move_errors' = <<>>) =>
               \A i \in 1..Len(rom_files) :
                   LET name == rom_files[i]
                       adult == facts[name].adult
                       casino == facts[name].casino
                       beta == SeqToSet(facts[name].specials)
                                   \cap {"Beta", "Proto", "Alpha"} # {}
                       non_usa == "USA" \notin SeqToSet(facts[name].regions)
                   IN  /\ adult => name \in SeqToSet(summary'.adult_moved)
                       /\ (casino /\ ~adult) => name \in SeqToSet(summary'.casino_moved)
                       /\ (beta /\ ~adult /\ ~casino)
                              => name \in SeqToSet(summary'.beta_proto_moved)
                       /\ (non_usa /\ ~adult /\ ~casino /\ ~beta)
                              => name \in SeqToSet(Filenames(summary'.region_organized))

\* C25: within one recommended cleanup no item is moved by more than one
\* step: what a step moved no later step tries to move, and when no move
\* fails a file that satisfies the rules of several steps is moved by the
\* earliest of them
C25_OneStepPerItem == [][OneStepPerItem]_vars

\* a recommended cleanup without a failed move has put an adult casino
\* title into Adult and a beta of a Europe title into Beta-Proto, and
\* neither into Casino or Europe
C25_Witness ==
    /\ pc = "handle_duplicate_regions"
    /\ move_errors = <<>>
    /\ DOMAIN disk = {".", "Adult", "Beta-Proto", "ROM_DELETE"}
    /\ "Strip Poker (USA).nes" \in SeqToSet(summary.adult_moved) \cap disk["Adult"]
    /\ "Sample (Europe) (Beta).nes" \in SeqToSet(summary.beta_proto_moved) \cap disk["Beta-Proto"]

(***************************************************************************)
(* Properties of the working list of recommended cleanup after a           *)
(* recursive scan.                                                         *)
(***************************************************************************)
\* the file of a path lies where the path says
InPlace(d, path) == PathFolder(path) \in DOMAIN d /\ PathName(path) \in d[PathFolder(path)]

\* the working list after a step is the list before it without the files
\* the step moved, in the same order
ExactUpdate ==
    (pc' \in {"move_adult_games", "move_casino_games", "move_beta_proto_games",
              "organize_roms_by_region"} /\ pc' # pc) =>
        LET stays(path) == ~(InPlace(disk, path) /\ ~InPlace(disk', path))
        IN  working' = SelectSeq(working, stays)

\* C26: after each step of recommended cleanup the working set is the
\* previous working set minus exactly the files the step moved: a file that
\* was not selected or whose move failed is still in it, also after a
\* recursive scan that found two files of one name in different subfolders
C26_WorkingSetExact == [][ExactUpdate]_vars

\* the values of pc after Keep-best-format, Keep-newest-version and
\* Handle-duplicate-regions
DuplicateOperations ==
    {"move_inferior_format_duplicates", "move_older_version_duplicates",
     "handle_duplicate_regions"}

\* C27: Keep-best-format, Keep-newest-version and Handle-duplicate-regions
\* never remove every copy of a game and never touch a save: of every base
\* name with a copy that is no save, one such copy is left in the ROM
\* directory, and no save is moved or tried
C27_OneCopyStaysSavesStay ==
    pc \in DuplicateOperations =>
        /\ \A base_name \in BaseNamesOf(rom_files) :
               LET copies == CopiesOf(base_name)
               IN  copies # <<>> =>
                       \E i \in 1..Len(copies) :
                           copies[i] \in disk["."] /\ copies[i] \notin Attempted
        /\ \A i \in 1..Len(rom_files) :
               facts[rom_files[i]].save =>
                   rom_files[i] \in disk["."] /\ rom_files[i] \notin Attempted

\* one of the three operations has moved a copy of a game whose save was
\* in the list; the save and another copy are still in the ROM directory
C27_Witness ==
    /\ pc \in DuplicateOperations
    /\ \E i, j, k \in 1..Len(rom_files) :
           /\ facts[rom_files[i]].save
           /\ rom_files[i] \in disk["."]
           /\ ~facts[rom_files[j]].save
           /\ facts[rom_files[j]].base = facts[rom_files[i]].base
           /\ rom_files[j] \in SeqToSet(ret)
           /\ ~facts[rom_files[k]].save
           /\ facts[rom_files[k]].base = facts[rom_files[i]].base
           /\ rom_files[k] \in disk["."]

\* the copies whose only version marker is a revision, with its number
RevisionCopies ==
    [name \in {"Game (USA) (Rev 1).zip", "Game (USA) (r2).nes",
               "Game (USA) [Revision 3].zip"} |->
        CASE name = "Game (USA) (Rev 1).zip" -> 1
          [] name = "Game (USA) (r2).nes" -> 2
          [] OTHER -> 3]

\* the copies without a version marker
UnversionedCopies ==
    {"Game (USA).zip", "Game (USA).nes", "Game (Europe).zip",
     "Game (Brazil) (Japan).zip", "Game (Brazil).zip"}

\* C28: a file name whose only version marker is revision N has the tuple
\* (2, 0, 0, N), below the tuple (2, 1, 0, 0) of a name without a marker;
\* of a group made of an unversioned copy and a revision
\* Keep-newest-version keeps the unversioned copy and moves the revision
C28_RevisionBelowUnversioned ==
    pc = "move_older_version_duplicates" =>
        /\ \A r \in DOMAIN RevisionCopies :
               /\ facts[r].version = <<2, 0, 0, RevisionCopies[r]>>
               /\ TupleLess(facts[r].version, <<2, 1, 0, 0>>)
        /\ \A u \in UnversionedCopies : facts[u].version = <<2, 1, 0, 0>>
        /\ \A u \in UnversionedCopies, r \in DOMAIN RevisionCopies :
               SeqToSet(CopiesOf(facts[u].base)) = {u, r} =>
                   /\ u \in disk["."]
                   /\ u \notin Attempted
                   /\ r \in Attempted
                   /\ r \notin locked => r \in SeqToSet(ret) /\ r \in disk[target_folder]

\* of an unversioned .zip and revision 2 as .nes, Keep-newest-version has
\* moved the revision
C28_Witness ==
    /\ pc = "move_older_version_duplicates"
    /\ SeqToSet(CopiesOf("Game")) = {"Game (USA).zip", "Game (USA) (r2).nes"}
    /\ ret = <<"Game (USA) (r2).nes">>
    /\ "Game (USA).zip" \in disk["."]

\* the copies all have one primary region
OnePrimaryRegion(copies) ==
    \A i, j \in 1..Len(copies) : get_primary_region(copies[i]) = get_primary_region(copies[j])

NamedRegions == {region_patterns[i].region : i \in 1..Len(region_patterns)}

\* C30: detect_regions never returns Unknown: every region it returns is
\* one of the 18 regions of region_patterns; so Move-unknown-region moves
\* no file and tries none, whatever the list of files
C30_NeverUnknown ==
    /\ Cardinality(NamedRegions) = 18
    /\ "Unknown" \notin NamedRegions
    /\ \A name \in DOMAIN facts :
           /\ facts[name].regions # <<>>
           /\ SeqToSet(facts[name].regions) \subseteq NamedRegions
    /\ pc = "move_files_by_criteria" =>
           /\ ret = <<>>
           /\ move_errors = <<>>
           /\ disk = [d \in {".", "ROM_DELETE", "ROM_REVIEW"} |->
                        IF d = "." THEN SeqToSet(rom_files) ELSE {}]

\* Move-unknown-region has run on a list with a file whose tag is
\* (Unknown) and has left it in the ROM directory
C30_Witness ==
    /\ pc = "move_files_by_criteria"
    /\ \E i \in 1..Len(rom_files) : rom_files[i] = "Other (Unknown).zip"
    /\ facts["Other (Unknown).zip"].regions = <<"USA">>
    /\ "Other (Unknown).zip" \in disk["."]
    /\ ret = <<>>

====
